---- MODULE Spec2Model ----
(***************************************************************************)
(* Research orchestration and caching engine of the auction finder:        *)
(* the result cache of db.py (normalised keys, status-dependent expiry,    *)
(* lazy deletion), the three-phase pipeline bot.research_nonprofit and     *)
(* the batch orchestrator bot.run.                                         *)
(*                                                                         *)
(* Strings are TLA+ strings, read character by character with SubSeq.      *)
(* Instants are whole hours since 0001-01-01T00:00 UTC (the proleptic      *)
(* Gregorian ordinal of Python's datetime, times 24).                      *)
(***************************************************************************)
EXTENDS Integers, Sequences, FiniteSets, TLC

VARIABLES
    nRaw,            \* normaliser harness: the identifier at hand
    nKey,            \* normaliser harness: the key first computed for it
    research_cache,  \* table research_cache: the set of its rows
    now,             \* datetime.now(timezone.utc), in hours
    ticks,           \* how often the clock has advanced
    lastOp,          \* cache harness: the last cache call and what it returned
    lastPut,         \* cache harness: key -> the completed puts, the latest first
    gone,            \* cache harness: keys a get found absent, no put since
    pool,            \* cache harness: the records the callers put
    ops,             \* cache harness: the number of cache calls made
    nonprofits,      \* bot.run, app._run_job: the input list
    runPc,           \* bot.run: "idle" | "group" | "done" | "raised";
                     \* app._run_job: "idle" | "loop" | "done" | "raised"
    groupStart,      \* bot.run: i, the index of the first batch of the group
    all_results,     \* bot.run: the list returned; app._run_job: the records
    task,            \* one research_nonprofit coroutine per input position
    sem,             \* asyncio.Semaphore value
    finished,        \* positions of the group in the order their coroutines returned
    lead,            \* classifier harness: the record at hand
    verdict,         \* classifier harness: <<>> or <<(tier, price)>> of lead;
                     \* missing-fields harness: <<>> or <<missing>> of lead
    idx,             \* app._run_job: the position the loop is at
    balance_exhausted, \* app._run_job: balance_exhausted[0]
    balance_cents,   \* table wallets: the balance of the user
    caller,          \* app._run_job: user_id (0 for None), is_admin, is_trial
    effects,         \* app._run_job: what was done for which position
    topups,          \* the number of add_funds calls made
    thread,          \* threads on the cache: where each is in cache_get
    response,        \* extract_json harness: the response text at hand
    extracted,       \* extract_json harness: <<>> or <<what extract_json did>>
    jobs,            \* app.jobs[job_id]: <<>> or its status
    progress_q,      \* the progress queue of the job: the types of the events
                     \* put so far, in order; None is the sentinel
    workerPc         \* app._job_worker: where the thread of the job is

normVars  == <<nRaw, nKey>>
cacheVars == <<research_cache, now, ticks>>
harnVars  == <<lastOp, lastPut, gone, pool, ops>>
jobVars   == <<nonprofits, runPc, groupStart, all_results, task, sem, finished>>
leadVars  == <<lead, verdict>>
appVars   == <<idx, balance_exhausted, balance_cents, caller, effects, topups>>
raceVars  == <<thread>>
textVars  == <<response, extracted>>
workVars  == <<jobs, progress_q, workerPc>>
vars      == <<nRaw, nKey, research_cache, now, ticks, lastOp, lastPut, gone,
               pool, ops,
               nonprofits, runPc, groupStart, all_results, task, sem, finished,
               lead, verdict,
               idx, balance_exhausted, balance_cents, caller, effects, topups,
               thread, response, extracted, jobs, progress_q, workerPc>>

\* Python's None where a string is expected, and where an instant is.
None == "<None>"
NoInstant == 0 - 1

Min(a, b) == IF a < b THEN a ELSE b

Range(s) == {s[i] : i \in DOMAIN s}

(***************************************************************************)
(* Python str primitives                                                   *)
(***************************************************************************)
Ch(s, i) == SubSeq(s, i, i)

Whitespace == {" ", "\t", "\n", "\r"}

\* The lower-case letter of each upper-case ASCII letter.
ToLowerCase ==
    "A" :> "a" @@ "B" :> "b" @@ "C" :> "c" @@ "D" :> "d" @@ "E" :> "e" @@
    "F" :> "f" @@ "G" :> "g" @@ "H" :> "h" @@ "I" :> "i" @@ "J" :> "j" @@
    "K" :> "k" @@ "L" :> "l" @@ "M" :> "m" @@ "N" :> "n" @@ "O" :> "o" @@
    "P" :> "p" @@ "Q" :> "q" @@ "R" :> "r" @@ "S" :> "s" @@ "T" :> "t" @@
    "U" :> "u" @@ "V" :> "v" @@ "W" :> "w" @@ "X" :> "x" @@ "Y" :> "y" @@
    "Z" :> "z"

ToUpperCase ==
    [c \in {ToLowerCase[u] : u \in DOMAIN ToLowerCase} |->
        CHOOSE u \in DOMAIN ToLowerCase : ToLowerCase[u] = c]

\* The place of character c in string s, or 0.
RECURSIVE IndexFrom(_, _, _)
IndexFrom(s, c, i) ==
    IF i > Len(s) THEN 0
    ELSE IF Ch(s, i) = c THEN i ELSE IndexFrom(s, c, i + 1)

Index(s, c) == IndexFrom(s, c, 1)

\* str.lower() on one character.
LowerCh(c) == IF c \in DOMAIN ToLowerCase THEN ToLowerCase[c] ELSE c

RECURSIVE lower(_)
lower(s) == IF s = "" THEN "" ELSE LowerCh(Ch(s, 1)) \o lower(Tail(s))

RECURSIVE lstrip(_)
lstrip(s) ==
    IF s # "" /\ Ch(s, 1) \in Whitespace THEN lstrip(Tail(s)) ELSE s

RECURSIVE rstrip(_)
rstrip(s) ==
    IF s # "" /\ Ch(s, Len(s)) \in Whitespace
    THEN rstrip(SubSeq(s, 1, Len(s) - 1)) ELSE s

\* str.strip(): drop the leading and the trailing whitespace.
strip(s) == rstrip(lstrip(s))

\* sub in s
Contains(s, sub) ==
    \E i \in 1..(Len(s) - Len(sub) + 1) : SubSeq(s, i, i + Len(sub) - 1) = sub

\* s.startswith(prefix)
StartsWith(s, prefix) ==
    Len(s) >= Len(prefix) /\ SubSeq(s, 1, Len(prefix)) = prefix

DigitVal ==
    "0" :> 0 @@ "1" :> 1 @@ "2" :> 2 @@ "3" :> 3 @@ "4" :> 4 @@
    "5" :> 5 @@ "6" :> 6 @@ "7" :> 7 @@ "8" :> 8 @@ "9" :> 9

IsDigit(c) == c \in DOMAIN DigitVal

RECURSIVE AllDigits(_)
AllDigits(s) == s = "" \/ (IsDigit(Ch(s, 1)) /\ AllDigits(Tail(s)))

\* int() of a string of decimal digits
RECURSIVE ToInt(_)
ToInt(s) ==
    IF s = "" THEN 0
    ELSE 10 * ToInt(SubSeq(s, 1, Len(s) - 1)) + DigitVal[Ch(s, Len(s))]

(***************************************************************************)
(* db._cache_key                                                           *)
(***************************************************************************)
\* A slip: one whitespace character dropped from each end, not all of them.
StripOnce_cache_key(nonprofit) ==
    LET a == IF nonprofit # "" /\ Ch(nonprofit, 1) \in Whitespace
             THEN Tail(nonprofit) ELSE nonprofit
        b == IF a # "" /\ Ch(a, Len(a)) \in Whitespace
             THEN SubSeq(a, 1, Len(a) - 1) ELSE a
    IN  lower(b)

_cache_key(nonprofit) == lower(strip(nonprofit))

(***************************************************************************)
(* Python datetime: proleptic Gregorian ordinals                           *)
(***************************************************************************)
IsLeap(y) == y % 4 = 0 /\ (y % 100 # 0 \/ y % 400 = 0)

DaysInMonth(y, m) ==
    IF m = 2 THEN (IF IsLeap(y) THEN 29 ELSE 28)
    ELSE IF m \in {4, 6, 9, 11} THEN 30 ELSE 31

RECURSIVE DaysBeforeMonth(_, _)
DaysBeforeMonth(y, m) ==
    IF m = 1 THEN 0 ELSE DaysBeforeMonth(y, m - 1) + DaysInMonth(y, m - 1)

DaysBeforeYear(y) ==
    (y - 1) * 365 + ((y - 1) \div 4) - ((y - 1) \div 100) + ((y - 1) \div 400)

\* date(y, m, d).toordinal(): 0001-01-01 is day 1.
YmdToOrd(y, m, d) == DaysBeforeYear(y) + DaysBeforeMonth(y, m) + d

\* datetime(y, m, d) raises ValueError outside these ranges.
ValidYmd(y, m, d) ==
    /\ y >= 1 /\ y <= 9999
    /\ m >= 1 /\ m <= 12
    /\ d >= 1 /\ d <= DaysInMonth(y, m)

\* datetime(y, m, d, tzinfo=utc) as an instant, in hours.
Midnight(y, m, d) == YmdToOrd(y, m, d) * 24

\* date.max.toordinal(): a datetime past it raises OverflowError.
MaxOrdinal == YmdToOrd(9999, 12, 31)

Days(n) == n * 24

(***************************************************************************)
(* Records (Python dicts with string keys) and their JSON text             *)
(***************************************************************************)
\* dict.get(key, default)
Get(d, k, default) == IF k \in DOMAIN d THEN d[k] ELSE default

\* The order in which json.dumps writes the keys a record can hold.
FieldOrder ==
    <<"nonprofit_name", "event_title", "evidence_date", "auction_type",
      "event_date", "event_url", "confidence_score", "evidence_auction",
      "contact_name", "contact_email", "contact_role", "organization_address",
      "organization_phone_maps", "contact_source_url", "event_summary",
      "status", "_processed_at", "_source", "_api_calls", "_phase",
      "_raw_response", "_balance_exhausted", "_balance_skipped">>

\* json.dumps(result): the members in order, each a <<key, value>> pair.
_json_dumps(result) ==
    LET ks == SelectSeq(FieldOrder, LAMBDA k : k \in DOMAIN result)
    IN  [i \in 1..Len(ks) |-> <<ks[i], result[ks[i]]>>]

\* json.loads(text): the dict of the members.
_json_loads(text) ==
    [k \in {text[i][1] : i \in DOMAIN text} |->
        text[CHOOSE i \in DOMAIN text : text[i][1] = k][2]]

(***************************************************************************)
(* db._parse_event_date, db._compute_expiry                                *)
(***************************************************************************)
\* s cut at position p of a separator: <<before, after>>, or <<>> for p = 0.
CutAt(s, p) ==
    IF p = 0 THEN <<>> ELSE <<SubSeq(s, 1, p - 1), SubSeq(s, p + 1, Len(s))>>

Digits(g, lens) == Len(g) \in lens /\ AllDigits(g)

MatchYear(g1, cut) ==
    IF Len(cut) = 0 THEN <<>>
    ELSE IF Digits(g1, {1, 2}) /\ Digits(cut[1], {1, 2}) /\ Digits(cut[2], {4})
         THEN <<g1, cut[1], cut[2]>>
         ELSE <<>>

MatchDay(cut) ==
    IF Len(cut) = 0 THEN <<>>
    ELSE MatchYear(cut[1], CutAt(cut[2], Index(cut[2], "/")))

\* The three groups of ^(\d{1,2})/(\d{1,2})/(\d{4})$, or <<>> for no match.
MatchMDY(s) == MatchDay(CutAt(s, Index(s, "/")))

\* datetime(y, m, d, tzinfo=utc), or NoInstant where it raises ValueError.
datetime(y, m, d) == IF ValidYmd(y, m, d) THEN Midnight(y, m, d) ELSE NoInstant

\* datetime(int(m.group(3)), int(m.group(1)), int(m.group(2)), ...)
DateOfMatch(m) ==
    IF Len(m) = 0 THEN NoInstant
    ELSE datetime(ToInt(m[3]), ToInt(m[1]), ToInt(m[2]))

\* The instant of the date at 00:00 UTC, or NoInstant for None.
_parse_event_date(date_str) ==
    IF date_str = None \/ date_str = "" THEN NoInstant
    ELSE DateOfMatch(MatchMDY(strip(date_str)))

\* In place of an instant: timedelta addition raised OverflowError.
OverflowError == 0 - 2

TTL_FOUND_DAYS == 90
TTL_NOT_FOUND_DAYS == 30
TTL_ERROR_DAYS == 7
TTL_UNCERTAIN_HOURS == 1

\* event_dt + timedelta(days=1) if event_dt else now + timedelta(days=90)
FoundExpiry(event_dt, t) ==
    IF event_dt # NoInstant
    THEN IF event_dt \div 24 + 1 > MaxOrdinal
         THEN OverflowError
         ELSE event_dt + Days(1)
    ELSE t + Days(TTL_FOUND_DAYS)

\* The policy of the function's docstring: error and uncertain both 7 days.
Docstring_compute_expiry(result, t) ==
    LET status == Get(result, "status", "uncertain")
    IN  IF status \in {"found", "3rdpty_found"}
        THEN FoundExpiry(_parse_event_date(Get(result, "event_date", "")), t)
        ELSE IF status = "not_found" THEN t + Days(TTL_NOT_FOUND_DAYS)
        ELSE t + Days(TTL_ERROR_DAYS)

\* The expiry instant of a record put at instant t, or OverflowError raised.
_compute_expiry(result, t) ==
    LET status == Get(result, "status", "uncertain")
    IN  IF status \in {"found", "3rdpty_found"}
        THEN FoundExpiry(_parse_event_date(Get(result, "event_date", "")), t)
        ELSE IF status = "not_found" THEN t + Days(TTL_NOT_FOUND_DAYS)
        ELSE IF status = "error" THEN t + Days(TTL_ERROR_DAYS)
        ELSE t + TTL_UNCERTAIN_HOURS

(***************************************************************************)
(* db.cache_get, db.cache_put on table research_cache (a set of rows)      *)
(***************************************************************************)
\* SELECT ... WHERE cache_key = key
SelectRows(table, key) == {r \in table : r.cache_key = key}

\* fetchone() of a non-empty selection
FetchOne(rows) == CHOOSE r \in rows : TRUE

NewRow(key, result, expires_at, t) ==
    [cache_key  |-> key,
     result_json |-> _json_dumps(result),
     status     |-> Get(result, "status", "uncertain"),
     event_title |-> Get(result, "event_title", ""),
     created_at |-> t,
     expires_at |-> expires_at]

\* A slip: a plain INSERT, were cache_key not UNIQUE.
InsertOnly(table, row) == table \cup {row}

\* INSERT ... ON CONFLICT (cache_key) DO UPDATE SET ...
Upsert(table, row) ==
    {r \in table : r.cache_key # row.cache_key} \cup {row}

\* The INSERT of cache_put, unless computing expires_at raised.
Execute(table, t, key, result, expires_at) ==
    IF expires_at = OverflowError
    THEN [raised |-> TRUE, table |-> table]
    ELSE [raised |-> FALSE,
          table |-> Upsert(table, NewRow(key, result, expires_at, t))]

\* cache_put at instant t: the table afterwards, or the exception raised.
cache_put(table, t, nonprofit, result) ==
    Execute(table, t, _cache_key(nonprofit), result, _compute_expiry(result, t))

Miss(table) == [hit |-> FALSE, table |-> table]

\* A slip: an entry counted as expired at its expiry instant already.
EarlyExpiry_cache_get(table, t, nonprofit) ==
    LET key == _cache_key(nonprofit)
        rows == SelectRows(table, key)
    IN  IF rows = {} THEN Miss(table)
        ELSE IF t >= FetchOne(rows).expires_at
             THEN Miss({r \in table : r.cache_key # key})
             ELSE [hit |-> TRUE, table |-> table,
                   ret |-> _json_loads(FetchOne(rows).result_json)]

\* cache_get at instant t: whether it returns a record (ret) or None, and
\* the table afterwards.
cache_get(table, t, nonprofit) ==
    LET key == _cache_key(nonprofit)
        rows == SelectRows(table, key)
    IN  IF rows = {} THEN Miss(table)
        ELSE IF t > FetchOne(rows).expires_at
             THEN Miss({r \in table : r.cache_key # key})
             ELSE [hit |-> TRUE, table |-> table,
                   ret |-> _json_loads(FetchOne(rows).result_json)]

(***************************************************************************)
(* bot.py: lead classification                                             *)
(***************************************************************************)
BATCH_SIZE == 5
MAX_PARALLEL_BATCHES == 2
MAX_NONPROFITS == 1000

CSV_COLUMNS ==
    <<"nonprofit_name", "event_title", "evidence_date", "auction_type",
      "event_date", "event_url", "confidence_score", "evidence_auction",
      "contact_name", "contact_email", "contact_role", "organization_address",
      "organization_phone_maps", "contact_source_url", "event_summary">>

\* d[k] = v on a dict, whether or not it holds k already.
Set(d, k, v) == (k :> v) @@ d

RECURSIVE NoWhitespace(_)
NoWhitespace(s) ==
    s = "" \/ (Ch(s, 1) \notin Whitespace /\ NoWhitespace(Tail(s)))

\* [^@\s]+\.[^@\s]+$ on what follows the first "@"
MatchDomain(rest) ==
    /\ Index(rest, "@") = 0
    /\ \E q \in 2..(Len(rest) - 1) : Ch(rest, q) = "."

\* ^[^@\s]+@ on e, whose first "@" is at position at
MatchLocal(e, at) ==
    at > 1 /\ NoWhitespace(e) /\ MatchDomain(SubSeq(e, at + 1, Len(e)))

\* re.match(r"^[^@\s]+@[^@\s]+\.[^@\s]+$", e)
MatchEmail(e) == MatchLocal(e, Index(e, "@"))

_is_valid_email(email) ==
    email # None /\ email # "" /\ MatchEmail(strip(email))

AnyScheme_has_valid_url(result) ==
    strip(Get(result, "event_url", "")) # ""

_has_valid_url(result) ==
    LET url == strip(Get(result, "event_url", ""))
    IN  StartsWith(url, "http://") \/ StartsWith(url, "https://")

DOWNGRADE_GENERIC_EMAILS == FALSE

GENERIC_PREFIXES == {"info@", "contact@", "admin@", "support@"}

\* bool(result.get(k, "").strip())
Has(result, k) == strip(Get(result, k, "")) # ""

ThreeTier(has_base, has_auction, has_name, has_email) ==
    IF has_base /\ has_name /\ has_email THEN "full"
    ELSE IF has_base /\ has_email THEN "partial"
    ELSE IF has_base THEN "bare"
    ELSE "not_billable"

Tier(has_base, has_auction, has_name, has_email) ==
    IF has_base /\ has_auction /\ has_name /\ has_email THEN "full"
    ELSE IF has_base /\ has_auction /\ has_email THEN "partial"
    ELSE IF has_base /\ has_email THEN "semi"
    ELSE IF has_base THEN "bare"
    ELSE "not_billable"

downgrades ==
    "full" :> "partial" @@ "partial" :> "semi" @@ "semi" :> "bare" @@
    "bare" :> "bare"

tier_prices ==
    "full" :> 150 @@ "partial" :> 125 @@ "semi" :> 100 @@ "bare" :> 75 @@
    "not_billable" :> 0

\* The optional downgrade of a lead whose e-mail address is a generic one.
Downgrade(tier, generic) ==
    IF DOWNGRADE_GENERIC_EMAILS /\ generic /\ tier \in DOMAIN downgrades
    THEN downgrades[tier] ELSE tier

IsGeneric(email) ==
    \E pre \in GENERIC_PREFIXES : StartsWith(lower(email), pre)

\* <<tier, price in cents>>
classify_lead_tier(result) ==
    IF ~Has(result, "event_title") \/ ~Has(result, "event_date")
       \/ ~_has_valid_url(result)
    THEN <<"not_billable", 0>>
    ELSE LET tier == Downgrade(
                        Tier(TRUE, Has(result, "auction_type"),
                             Has(result, "contact_name"),
                             _is_valid_email(Get(result, "contact_email", ""))),
                        /\ _is_valid_email(Get(result, "contact_email", ""))
                        /\ IsGeneric(Get(result, "contact_email", "")))
         IN  <<tier, tier_prices[tier]>>

\* A slip: event_date is looked at before contact_email.
DateFirst_missing_billable_fields(result) ==
    LET absent(k) == strip(Get(result, k, "")) = ""
        one(cond, k) == IF cond THEN <<k>> ELSE <<>>
    IN  one(~_has_valid_url(result), "event_url")
        \o one(absent("event_date"), "event_date")
        \o one(~_is_valid_email(Get(result, "contact_email", "")), "contact_email")
        \o one(absent("auction_type"), "auction_type")
        \o one(absent("contact_role"), "contact_role")
        \o one(absent("organization_address"), "organization_address")
        \o one(absent("organization_phone_maps"), "organization_phone_maps")

_missing_billable_fields(result) ==
    LET absent(k) == strip(Get(result, k, "")) = ""
        one(cond, k) == IF cond THEN <<k>> ELSE <<>>
    IN  one(~_has_valid_url(result), "event_url")
        \o one(~_is_valid_email(Get(result, "contact_email", "")), "contact_email")
        \o one(absent("event_date"), "event_date")
        \o one(absent("auction_type"), "auction_type")
        \o one(absent("contact_role"), "contact_role")
        \o one(absent("organization_address"), "organization_address")
        \o one(absent("organization_phone_maps"), "organization_phone_maps")

\* {col: "" for col in CSV_COLUMNS}
BlankRow == [col \in Range(CSV_COLUMNS) |-> ""]

_quick_scan_to_full(scan, nonprofit) ==
    [BlankRow EXCEPT
        !["nonprofit_name"] = Get(scan, "nonprofit_name", nonprofit),
        !["event_title"] = Get(scan, "event_title", ""),
        !["event_date"] = Get(scan, "event_date", ""),
        !["event_url"] = Get(scan, "event_url", ""),
        !["auction_type"] = Get(scan, "auction_type", ""),
        !["evidence_date"] = Get(scan, "evidence_date", ""),
        !["contact_name"] = Get(scan, "contact_name", ""),
        !["contact_email"] = Get(scan, "contact_email", ""),
        !["contact_role"] = Get(scan, "contact_role", ""),
        !["organization_address"] = Get(scan, "organization_address", ""),
        !["organization_phone_maps"] = Get(scan, "organization_phone_maps", ""),
        !["contact_source_url"] = Get(scan, "contact_source_url", ""),
        !["confidence_score"] = Get(scan, "confidence", 0),
        !["evidence_auction"] = Get(scan, "evidence_auction", ""),
        !["event_summary"] = Get(scan, "notes", "")]
    @@ [status |-> IF Get(scan, "has_event", FALSE) THEN "found" ELSE "not_found"]

\* The record of a failed run, made at instant t.
_error_result(nonprofit, error, raw, t) ==
    LET result == [BlankRow EXCEPT
                      !["nonprofit_name"] = nonprofit,
                      !["confidence_score"] = 0,
                      !["event_summary"] = "Error during research: " \o error]
                  @@ [status |-> "uncertain", _processed_at |-> t]
    IN  IF raw # "" THEN Set(result, "_raw_response", raw) ELSE result

(***************************************************************************)
(* Bounds and inputs                                                       *)
(***************************************************************************)
MaxStrLen == 3
MaxTicks == 2
MaxOps == 3

NormAlphabet == {"a", "B", " ", "\t", "."}

RECURSIVE StringsUpTo(_)
StringsUpTo(n) ==
    IF n = 0 THEN {""}
    ELSE LET shorter == StringsUpTo(n - 1)
         IN  shorter \cup {s \o c : s \in shorter, c \in NormAlphabet}

\* The job starts on 2026-03-05 at 09:00 UTC.
StartInstant == Midnight(2026, 3, 5) + 9

CacheIds == {"a.org", " A.Org\n", "b.org"}

CacheKeys == {"a.org", "b.org"}

CacheRecord(status, event_date, event_title) ==
    [status |-> status, event_date |-> event_date, event_title |-> event_title]

FoundDates ==
    {"3/5/2026", "03/06/2026", " 1/2/2026 ", "", "2026-03-05", "2/30/2026",
     "3/5/26", "12/31/9999", None}

CacheRecords ==
    {CacheRecord("found", d, "Gala") : d \in FoundDates}
    \cup {CacheRecord("3rdpty_found", d, "Gala") : d \in {"3/5/2026", ""}}
    \cup {CacheRecord(st, d, "") :
            st \in {"not_found", "error", "uncertain"}, d \in {"", "3/5/2026"}}
    \cup {[event_title |-> "", event_date |-> "3/5/2026"]}

\* What the callers of one run put: one record, or one of these pairs.
Pools ==
    {{r} : r \in CacheRecords}
    \cup {{CacheRecord("found", "3/5/2026", "Gala"),
           CacheRecord("not_found", "", "")},
          {CacheRecord("uncertain", "", ""),
           CacheRecord("found", "12/31/9999", "Gala")},
          {CacheRecord("error", "", ""),
           CacheRecord("found", " 1/2/2026 ", "Gala")}}

NoOp ==
    [op |-> "none", id |-> "", at |-> NoInstant, rec |-> <<>>, raised |-> FALSE,
     hit |-> FALSE, ret |-> <<>>, before |-> {}]

(***************************************************************************)
(* The normaliser applied to identifiers and to their variants             *)
(***************************************************************************)
SwapCase(c) ==
    IF c \in DOMAIN ToLowerCase THEN ToLowerCase[c]
    ELSE IF c \in DOMAIN ToUpperCase THEN ToUpperCase[c]
         ELSE c

\* key = _cache_key(identifier)
Normalize ==
    /\ nKey = None
    /\ nKey' = _cache_key(nRaw)
    /\ UNCHANGED <<nRaw, cacheVars, harnVars, jobVars, leadVars, appVars, raceVars, textVars, workVars>>

\* The key handed in as an identifier.
Renormalize ==
    /\ nKey # None /\ nRaw # nKey
    /\ nRaw' = nKey
    /\ UNCHANGED <<nKey, cacheVars, harnVars, jobVars, leadVars, appVars, raceVars, textVars, workVars>>

\* The same identifier with one letter in the other case.
Recase ==
    \E i \in 1..Len(nRaw) :
        /\ SwapCase(Ch(nRaw, i)) # Ch(nRaw, i)
        /\ nRaw' = SubSeq(nRaw, 1, i - 1) \o SwapCase(Ch(nRaw, i))
                      \o SubSeq(nRaw, i + 1, Len(nRaw))
        /\ UNCHANGED <<nKey, cacheVars, harnVars, jobVars, leadVars, appVars, raceVars, textVars, workVars>>

\* The same identifier with whitespace added in front or behind.
Pad ==
    \E c \in NormAlphabet \cap Whitespace :
        /\ Len(nRaw) <= MaxStrLen
        /\ nRaw' \in {c \o nRaw, nRaw \o c}
        /\ UNCHANGED <<nKey, cacheVars, harnVars, jobVars, leadVars, appVars, raceVars, textVars, workVars>>

InitNorm ==
    /\ nRaw \in StringsUpTo(MaxStrLen) /\ nKey = None
    /\ research_cache = {} /\ now = StartInstant /\ ticks = 0
    /\ lastOp = NoOp /\ lastPut = [k \in CacheKeys |-> <<>>] /\ gone = {}
    /\ pool = {} /\ ops = 0
    /\ nonprofits = <<>> /\ runPc = "idle" /\ groupStart = 0
    /\ all_results = <<>> /\ task = <<>> /\ sem = 0 /\ finished = <<>>
    /\ lead = <<>> /\ verdict = <<>>
    /\ idx = 0 /\ balance_exhausted = FALSE /\ balance_cents = 0
    /\ caller = <<>> /\ effects = {} /\ topups = 0
    /\ thread = <<>>
    /\ response = <<>> /\ extracted = <<>>
    /\ jobs = <<>> /\ progress_q = <<>> /\ workerPc = "none"

NextNorm == Normalize \/ Renormalize \/ Recase \/ Pad

SpecNorm == InitNorm /\ [][NextNorm]_vars

(***************************************************************************)
(* The classifier applied to records and to their amendments               *)
(***************************************************************************)
LeadValues ==
    [event_title |-> {"", " ", "Gala"},
     event_date |-> {"", "3/5/2026"},
     event_url |-> {"", "https://x.org", " http://x.org", "ftp://x.org", "x.org"},
     auction_type |-> {"", "silent"},
     contact_name |-> {"", "Ann"},
     contact_email |-> {"", "ann@x.org", "info@x.org", "ann@x"}]

LeadFields == DOMAIN LeadValues

\* The records classified: every field drawn from its values, and the record
\* that holds none of the fields.
Leads ==
    {l \in [LeadFields -> UNION Range([k \in LeadFields |-> LeadValues[k]])] :
        \A k \in LeadFields : l[k] \in LeadValues[k]}
    \cup {[nonprofit_name |-> "x.org"]}

\* tier, price = classify_lead_tier(lead)
Classify ==
    /\ verdict = <<>>
    /\ verdict' = <<classify_lead_tier(lead)>>
    /\ UNCHANGED <<lead, normVars, cacheVars, harnVars, jobVars, appVars, raceVars, textVars, workVars>>

\* lead[k] = v, and the record classified anew.
Amend ==
    \E k \in LeadFields : \E v \in LeadValues[k] :
        /\ verdict # <<>>
        /\ Get(lead, k, None) # v
        /\ lead' = Set(lead, k, v)
        /\ verdict' = <<classify_lead_tier(lead')>>
        /\ UNCHANGED <<normVars, cacheVars, harnVars, jobVars, appVars, raceVars, textVars, workVars>>

InitTier ==
    /\ nRaw = "" /\ nKey = None
    /\ research_cache = {} /\ now = StartInstant /\ ticks = 0
    /\ lastOp = NoOp /\ lastPut = [k \in CacheKeys |-> <<>>] /\ gone = {}
    /\ pool = {} /\ ops = 0
    /\ nonprofits = <<>> /\ runPc = "idle" /\ groupStart = 0
    /\ all_results = <<>> /\ task = <<>> /\ sem = 0 /\ finished = <<>>
    /\ lead \in Leads /\ verdict = <<>>
    /\ idx = 0 /\ balance_exhausted = FALSE /\ balance_cents = 0
    /\ caller = <<>> /\ effects = {} /\ topups = 0
    /\ thread = <<>>
    /\ response = <<>> /\ extracted = <<>>
    /\ jobs = <<>> /\ progress_q = <<>> /\ workerPc = "none"

NextTier == Classify \/ Amend

SpecTier == InitTier /\ [][NextTier]_vars

(***************************************************************************)
(* A harness for _missing_billable_fields                                  *)
(***************************************************************************)
\* The records looked at: every field of the priority list present or not,
\* valid or not, and the record that holds none of them.
MissingLeads ==
    {[event_url |-> url, contact_email |-> email, event_date |-> date,
      auction_type |-> auction, contact_role |-> role,
      organization_address |-> address, organization_phone_maps |-> phone] :
        url \in LeadValues.event_url,
        email \in LeadValues.contact_email \cup {"a b@x.org", "ann@@x.org", "ann@.org"},
        date \in LeadValues.event_date, auction \in LeadValues.auction_type,
        role \in {"", "Director"}, address \in {" ", "1 Main St"},
        phone \in {"", "555-0100"}}
    \cup {[nonprofit_name |-> "x.org"]}

\* missing = _missing_billable_fields(lead)
Missing ==
    /\ lead # <<>> /\ verdict = <<>>
    /\ verdict' = <<_missing_billable_fields(lead)>>
    /\ UNCHANGED <<lead, normVars, cacheVars, harnVars, jobVars, appVars, raceVars,
                   textVars, workVars>>

InitMissing ==
    /\ nRaw = "" /\ nKey = None
    /\ research_cache = {} /\ now = StartInstant /\ ticks = 0
    /\ lastOp = NoOp /\ lastPut = <<>> /\ gone = {}
    /\ pool = {} /\ ops = 0
    /\ nonprofits = <<>> /\ runPc = "idle" /\ groupStart = 0
    /\ all_results = <<>> /\ task = <<>> /\ sem = 0 /\ finished = <<>>
    /\ lead \in MissingLeads /\ verdict = <<>>
    /\ idx = 0 /\ balance_exhausted = FALSE /\ balance_cents = 0
    /\ caller = <<>> /\ effects = {} /\ topups = 0
    /\ thread = <<>>
    /\ response = <<>> /\ extracted = <<>>
    /\ jobs = <<>> /\ progress_q = <<>> /\ workerPc = "none"

NextMissing == Missing

SpecMissing == InitMissing /\ [][NextMissing]_vars

(***************************************************************************)
(* The cache called directly: put, get, and the clock                      *)
(***************************************************************************)
CachePut ==
    \E id \in CacheIds, rec \in pool :
        LET r == cache_put(research_cache, now, id, rec)
            key == _cache_key(id)
        IN  /\ ops < MaxOps
            /\ ops' = ops + 1
            /\ research_cache' = r.table
            /\ lastOp' = [NoOp EXCEPT !.op = "put", !.id = id, !.at = now,
                            !.rec = <<rec>>, !.raised = r.raised,
                            !.before = SelectRows(research_cache, key)]
            /\ lastPut' = IF r.raised THEN lastPut
                          ELSE [lastPut EXCEPT ![key] =
                                  <<[rec |-> rec, at |-> now, id |-> id,
                                     n |-> Len(lastPut[key]) + 1]>>
                                  \o lastPut[key]]
            /\ gone' = IF r.raised THEN gone ELSE gone \ {key}
            /\ UNCHANGED <<now, ticks, pool, normVars, jobVars, leadVars, appVars, raceVars, textVars, workVars>>

CacheGet ==
    \E id \in CacheIds :
        LET r == cache_get(research_cache, now, id)
            key == _cache_key(id)
        IN  /\ ops < MaxOps
            /\ ops' = ops + 1
            /\ research_cache' = r.table
            /\ lastOp' = [NoOp EXCEPT !.op = "get", !.id = id, !.at = now,
                            !.hit = r.hit,
                            !.ret = IF r.hit THEN <<r.ret>> ELSE <<>>,
                            !.before = SelectRows(research_cache, key)]
            /\ gone' = IF r.hit THEN gone ELSE gone \cup {key}
            /\ UNCHANGED <<now, ticks, lastPut, pool, normVars, jobVars, leadVars, appVars, raceVars, textVars, workVars>>

\* Time passes: an hour, or up to the instant at which an entry expires.
\* Within a job the clock is advanced between two groups of batches only.
Tick ==
    /\ ticks < MaxTicks
    /\ nonprofits # <<>> =>
          runPc = "group" /\ \A p \in DOMAIN task : task[p].pc = "done"
    /\ now' \in {now + 1} \cup {r.expires_at : r \in {x \in research_cache : x.expires_at > now}}
    /\ ticks' = ticks + 1
    /\ UNCHANGED <<research_cache, normVars, harnVars, jobVars, leadVars, appVars, raceVars, textVars, workVars>>

InitCache ==
    /\ nRaw = "" /\ nKey = None
    /\ research_cache = {} /\ now = StartInstant /\ ticks = 0
    /\ lastOp = NoOp /\ lastPut = [k \in CacheKeys |-> <<>>] /\ gone = {}
    /\ pool \in Pools /\ ops = 0
    /\ nonprofits = <<>> /\ runPc = "idle" /\ groupStart = 0
    /\ all_results = <<>> /\ task = <<>> /\ sem = 0 /\ finished = <<>>
    /\ lead = <<>> /\ verdict = <<>>
    /\ idx = 0 /\ balance_exhausted = FALSE /\ balance_cents = 0
    /\ caller = <<>> /\ effects = {} /\ topups = 0
    /\ thread = <<>>
    /\ response = <<>> /\ extracted = <<>>
    /\ jobs = <<>> /\ progress_q = <<>> /\ workerPc = "none"

NextCache == CachePut \/ CacheGet \/ Tick

SpecCache == InitCache /\ [][NextCache]_vars

(***************************************************************************)
(* bot.research_nonprofit: one coroutine per identifier.  asyncio runs one *)
(* coroutine at a time, so the code between two awaits is one step.        *)
(***************************************************************************)
\* What a research call comes back with: an exception of _claude_call, or a
\* text in which extract_json finds an object, an array, or nothing.
NoValue == [nothing |-> ""]
Raise(type, msg) == [raises |-> type, msg |-> msg, parses |-> "", value |-> NoValue]
Object(value) == [raises |-> "", msg |-> "", parses |-> "object", value |-> value]
Text(parses) == [raises |-> "", msg |-> "", parses |-> parses, value |-> NoValue]

RateLimit429 == Raise("RateLimitError", "Error code: 429 - rate_limit_error")
ResourceExhausted == Raise("RateLimitError", "RESOURCE_EXHAUSTED: quota exceeded")
TimedOut == Raise("APITimeoutError", "Request timed out.")

FailureOf(reply) == IF reply.raises = "RateLimitError" THEN "rate_limit" ELSE "call"

NewTask(np, n) ==
    [pc |-> "new", nonprofit |-> np, index |-> n, api_calls |-> 0,
     scan |-> <<>>, deep |-> <<>>, result |-> <<>>, missing |-> <<>>, k |-> 0,
     calls |-> 0, asked |-> <<>>, trail |-> <<>>, ret |-> <<>>, fail |-> "",
     putRow |-> {}]

\* return rec, having written rows to the cache
Returned(t, rec, rows) ==
    [t EXCEPT !.pc = "done", !.ret = <<rec>>, !.putRow = rows]

Stamp(r, api_calls, phase, tm) ==
    Set(Set(Set(Set(r, "_api_calls", api_calls), "_phase", phase),
            "_processed_at", tm), "_source", "claude")

\* A slip: a handler that lets the exception go.
Reraise_OnException(tbl, tm, t, msg, why) ==
    [table |-> tbl, task |-> [t EXCEPT !.pc = "raised", !.fail = why]]

\* return rec after cache_put(nonprofit, rec) has been executed as put
AfterPut(tbl, t, rec, put) ==
    [table |-> put.table,
     task |-> Returned(t, rec, SelectRows(put.table, _cache_key(t.nonprofit)))]

\* cache_put(nonprofit, err); return err  -- in a handler, nothing catches
CacheError(tbl, t, err, put) ==
    IF put.raised
    THEN [table |-> tbl, task |-> [t EXCEPT !.pc = "raised"]]
    ELSE AfterPut(tbl, t, err, put)

\* A slip: a handler that caches every failure.
AlwaysCache_OnException(tbl, tm, t, msg, why) ==
    CacheError(tbl, [t EXCEPT !.fail = why], _error_result(t.nonprofit, msg, "", tm),
               cache_put(tbl, tm, t.nonprofit, _error_result(t.nonprofit, msg, "", tm)))

\* except Exception as e
OnException(tbl, tm, t, msg, why) ==
    IF ~Contains(msg, "429") /\ ~Contains(msg, "RESOURCE_EXHAUSTED")
    THEN CacheError(tbl, [t EXCEPT !.fail = why],
                    _error_result(t.nonprofit, msg, "", tm),
                    cache_put(tbl, tm, t.nonprofit,
                              _error_result(t.nonprofit, msg, "", tm)))
    ELSE [table |-> tbl,
          task |-> Returned([t EXCEPT !.fail = why],
                            _error_result(t.nonprofit, msg, "", tm), {})]

ParseFailure == "Failed to parse response as JSON"

\* except json.JSONDecodeError
OnJSONDecodeError(tbl, tm, t) ==
    CacheError(tbl, [t EXCEPT !.fail = "parse"],
               _error_result(t.nonprofit, ParseFailure, "", tm),
               cache_put(tbl, tm, t.nonprofit,
                         _error_result(t.nonprofit, ParseFailure, "", tm)))

\* The try block's cache_put(nonprofit, rec), executed as put; return rec
TryPut(tbl, tm, t, rec, put) ==
    IF put.raised
    THEN OnException(tbl, tm, t, "date value out of range", "cache")
    ELSE AfterPut(tbl, t, rec, put)

\* cache_put(nonprofit, rec); return rec  -- inside the try block
PutAndReturn(tbl, tm, t, rec) ==
    TryPut(tbl, tm, t, rec, cache_put(tbl, tm, t.nonprofit, rec))

\* What a failed call or an unusable text does to the run in phases 1 and 2.
Failed(tbl, tm, t, reply, typeError) ==
    IF reply.raises # "" THEN OnException(tbl, tm, t, reply.msg, FailureOf(reply))
    ELSE IF reply.parses = "none" THEN OnJSONDecodeError(tbl, tm, t)
    ELSE OnException(tbl, tm, t, typeError, "parse")

_all_filled(full) ==
    /\ classify_lead_tier(full)[1] = "full"
    /\ _has_valid_url(full)
    /\ \A k \in {"evidence_date", "contact_role", "organization_address",
                 "organization_phone_maps", "contact_source_url"} : Has(full, k)

\* A slip: the negative early stop wants more than 0.80.
Above_EarlyStop(scan, full) ==
    \/ ~Get(scan, "has_event", FALSE) /\ Get(scan, "confidence", 0) > 80
    \/ /\ Get(scan, "has_event", FALSE) /\ Get(scan, "confidence", 0) >= 85
       /\ _all_filled(full)

\* The two early stops of phase 1: a confident negative, or a confident
\* positive with every field filled.
EarlyStop(scan, full) ==
    \/ ~Get(scan, "has_event", FALSE) /\ Get(scan, "confidence", 0) >= 80
    \/ /\ Get(scan, "has_event", FALSE) /\ Get(scan, "confidence", 0) >= 85
       /\ _all_filled(full)

ScanDone(tbl, tm, t, scan, full) ==
    IF EarlyStop(scan, full)
    THEN PutAndReturn(tbl, tm, t, Stamp(full, t.api_calls, "quick_scan", tm))
    ELSE [table |-> tbl, task |-> [t EXCEPT !.api_calls = @ + 1, !.pc = "deep"]]

\* Phase 1, from the answer of _quick_scan to the next await or return.
QuickScanDone(tbl, tm, t, reply) ==
    IF reply.parses # "object"
    THEN Failed(tbl, tm, t, reply, "'list' object has no attribute 'get'")
    ELSE ScanDone(tbl, tm, [t EXCEPT !.scan = <<reply.value>>], reply.value,
                  _quick_scan_to_full(reply.value, t.nonprofit))

str == <<"1", "2", "3", "4", "5", "6", "7", "8", "9">>

\* Final classification: the record is cached and returned.
Finalize(tbl, tm, t, result) ==
    PutAndReturn(tbl, tm, t,
        Set(Set(result, "_api_calls", t.api_calls),
            "_phase", "phase_" \o str[t.api_calls]))

\* A slip: phase 3 chases four fields.
FourFields_DeepDone(tbl, tm, t, result, tier, missing) ==
    IF \/ Get(result, "status", "uncertain") = "not_found"
       \/ tier # "not_billable" /\ Len(missing) = 0
    THEN PutAndReturn(tbl, tm, t,
            Set(Set(result, "_api_calls", t.api_calls), "_phase", "deep_research"))
    ELSE IF Len(missing) > 0 /\ Has(result, "event_title")
    THEN [table |-> tbl,
          task |-> [t EXCEPT !.result = <<result>>,
                             !.missing = SubSeq(missing, 1, Min(4, Len(missing))),
                             !.k = 1, !.api_calls = @ + 1, !.pc = "followup"]]
    ELSE Finalize(tbl, tm, t, result)

\* Phase 2 after the parse: result carries _processed_at and _source.
DeepDone(tbl, tm, t, result, tier, missing) ==
    IF \/ Get(result, "status", "uncertain") = "not_found"
       \/ tier # "not_billable" /\ Len(missing) = 0
    THEN PutAndReturn(tbl, tm, t,
            Set(Set(result, "_api_calls", t.api_calls), "_phase", "deep_research"))
    ELSE IF Len(missing) > 0 /\ Has(result, "event_title")
    THEN [table |-> tbl,
          task |-> [t EXCEPT !.result = <<result>>,
                             !.missing = SubSeq(missing, 1, Min(3, Len(missing))),
                             !.k = 1, !.api_calls = @ + 1, !.pc = "followup"]]
    ELSE Finalize(tbl, tm, t, result)

Deepened(tbl, tm, t, result) ==
    DeepDone(tbl, tm, t, result, classify_lead_tier(result)[1],
             _missing_billable_fields(result))

\* Phase 2, from the answer of _deep_research to the next await or return.
DeepResearchDone(tbl, tm, t, reply) ==
    IF reply.parses # "object"
    THEN Failed(tbl, tm, t, reply, "list indices must be integers or slices, not str")
    ELSE Deepened(tbl, tm, [t EXCEPT !.deep = <<reply.value>>],
                  Set(Set(reply.value, "_processed_at", tm), "_source", "claude"))

\* result[field] = value, and contact_source_url when the answer names one
Filled(result, field, value, source_url) ==
    IF value = "" THEN result
    ELSE IF source_url # ""
         THEN Set(Set(result, field, value), "contact_source_url", source_url)
         ELSE Set(result, field, value)

\* The next field is chased, or the record is classified and returned.
FollowedUp(tbl, tm, t, result) ==
    IF t.k < Len(t.missing)
    THEN [table |-> tbl,
          task |-> [t EXCEPT !.result = <<result>>, !.k = @ + 1,
                             !.api_calls = @ + 1]]
    ELSE Finalize(tbl, tm, t, result)

\* Phase 3, from the answer of one _targeted_followup to the next await or
\* return; a failure of the call or of the parse is swallowed.
FollowupDone(tbl, tm, t, reply) ==
    FollowedUp(tbl, tm, t,
        IF reply.parses = "object"
        THEN Filled(t.result[1], t.missing[t.k],
                    strip(Get(reply.value, t.missing[t.k], "")),
                    Get(reply.value, "source_url", ""))
        ELSE t.result[1])

(***************************************************************************)
(* What the research capability answers, per organisation                  *)
(***************************************************************************)
Lead(name, site) ==
    [nonprofit_name |-> name, event_title |-> "Gala", event_date |-> "3/5/2026",
     evidence_date |-> "March 5, 2026", event_url |-> "https://" \o site \o "/gala",
     auction_type |-> "silent", contact_name |-> "Ann",
     contact_email |-> "ann@" \o site, contact_role |-> "Director",
     organization_address |-> "1 Main St", organization_phone_maps |-> "555-0100",
     contact_source_url |-> "https://" \o site \o "/staff",
     evidence_auction |-> "silent auction at 6pm"]

NoLead(name) == [nonprofit_name |-> name]

Scan(fields, has_event, confidence) ==
    fields @@ [has_event |-> has_event, confidence |-> confidence, notes |-> ""]

Deep(fields, status, confidence) ==
    fields @@ [status |-> status, confidence_score |-> confidence,
               event_summary |-> ""]

Without(fields, ks) == [k \in DOMAIN fields |-> IF k \in ks THEN "" ELSE fields[k]]

QuickScanReplies(nonprofit) ==
    LET org == _cache_key(nonprofit)
    IN  CASE org = "x.org" -> {RateLimit429, TimedOut, Text("none")}
          [] org = "n.org" -> {Object(Scan(NoLead("N Org"), FALSE, 80)),
                               Object(Scan(NoLead("N Org"), FALSE, 79))}
          [] org = "f.org" -> {Object(Scan(Lead("F Org", "f.org"), TRUE, 85)),
                               Object(Scan(Lead("F Org", "f.org"), TRUE, 84)),
                               Object(Scan(Without(Lead("F Org", "f.org"),
                                                   {"evidence_auction"}), TRUE, 90)),
                               Object(Scan(Without(Lead("F Org", "f.org"),
                                                   {"contact_email"}), TRUE, 90))}
          [] OTHER -> {Object(Scan(NoLead(nonprofit), FALSE, 80))}

DeepResearchReplies(nonprofit) ==
    LET org == _cache_key(nonprofit)
    IN  CASE org = "n.org" -> {Object(Deep(NoLead("N Org"), "not_found", 70)),
                               ResourceExhausted, Text("array")}
          [] org = "f.org" ->
               {Object(Deep(Lead("F Org", "f.org"), "found", 95)),
                Object(Deep(Without(Lead("F Org", "f.org"),
                                    {"contact_email", "contact_role",
                                     "organization_address",
                                     "organization_phone_maps"}), "found", 90)),
                Object(Deep([Lead("F Org", "f.org") EXCEPT
                               !.event_date = "12/31/9999"], "found", 90)),
                Object(Deep([Without(Lead("F Org", "f.org"), {"contact_email"})
                               EXCEPT !.event_date = "12/31/9999"], "found", 90)),
                Object(Deep(Without(Lead("F Org", "f.org"),
                                    {"event_title", "event_url"}), "uncertain", 40))}
          [] OTHER -> {Object(Deep(NoLead(nonprofit), "not_found", 70))}

FollowupReplies(nonprofit, field) ==
    CASE field = "contact_email" ->
           {Object([contact_email |-> " ann@f.org ",
                    source_url |-> "https://f.org/about"]),
            TimedOut}
      [] field = "contact_role" ->
           {Object([contact_role |-> "Chair"]),
            Object([contact_role |-> " ", source_url |-> "https://f.org/board"])}
      [] OTHER ->
           {Object((field :> "found it") @@ [source_url |-> "https://f.org/about"]),
            Text("none")}

\* The cache before the job: a fresh entry for h.org, written the day before,
\* and an entry for x.org that expired an hour ago.
SeedCache ==
    LET hit == Stamp(Deep(Lead("H Org", "h.org"), "found", 95), 2,
                     "deep_research", StartInstant - 24)
        stale == _error_result("x.org", "Request timed out.", "", StartInstant - 3)
        one == cache_put({}, StartInstant - 24, "h.org", hit).table
    IN  cache_put(one, StartInstant - 3, "x.org", stale).table

JobLists ==
    {<<"h.org", "x.org", "h.org", "n.org", "h.org",
       "h.org", "h.org", "h.org", "h.org", "h.org",
       " X.Org\n", "n.org">>,
     <<"f.org", "x.org", "n.org">>,
     <<"x.org", "X.ORG">>,
     <<>>}

(***************************************************************************)
(* bot.run and bot.process_batch                                           *)
(***************************************************************************)
RECURSIVE SumLen(_)
SumLen(bs) == IF bs = <<>> THEN 0 ELSE Len(bs[1]) + SumLen(Tail(bs))

\* [nonprofits[i:i + BATCH_SIZE] for i in range(0, len(nonprofits), BATCH_SIZE)]
Batches(nps) ==
    [b \in 1..((Len(nps) + BATCH_SIZE - 1) \div BATCH_SIZE) |->
        SubSeq(nps, (b - 1) * BATCH_SIZE + 1, Min(b * BATCH_SIZE, Len(nps)))]

\* A slip: a group of one batch more.
Wide_Group(batches, i) ==
    SubSeq(batches, i + 1, Min(i + MAX_PARALLEL_BATCHES + 1, Len(batches)))

\* group = batches[i:i + MAX_PARALLEL_BATCHES]
Group(batches, i) ==
    SubSeq(batches, i + 1, Min(i + MAX_PARALLEL_BATCHES, Len(batches)))

\* The index argument of the coroutine for batch[ii] of group[j] (from 0):
\* global_offset + sum(len(g) for g in group[:j]) + ii + 1
IndexOf(batches, i, j, ii) ==
    SumLen(SubSeq(batches, 1, i)) + SumLen(SubSeq(Group(batches, i), 1, j)) + ii + 1

\* The coroutines process_batch creates for the batches of the group.
GroupTasks(batches, i) ==
    UNION {{NewTask(Group(batches, i)[j + 1][ii + 1], IndexOf(batches, i, j, ii)) :
              ii \in 0..(Len(Group(batches, i)[j + 1]) - 1)} :
           j \in 0..(Len(Group(batches, i)) - 1)}

Created(tasks, new) ==
    [p \in DOMAIN tasks \cup {t.index : t \in new} |->
        IF \E t \in new : t.index = p
        THEN CHOOSE t \in new : t.index = p
        ELSE tasks[p]]

\* A returned record, and the coroutine that returned it.
ResultOf(p) == [task |-> p, rec |-> task[p].ret[1]]

\* A slip: the results in the order in which the coroutines returned.
AsCompleted_gather(idxs) ==
    LET done == SelectSeq(finished, LAMBDA p : p \in Range(idxs))
    IN  [n \in 1..Len(done) |-> ResultOf(done[n])]

\* await asyncio.gather(*tasks): the results in the order of the arguments.
gather(idxs) == [n \in 1..Len(idxs) |-> ResultOf(idxs[n])]

RECURSIVE extend(_, _)
extend(results, group_results) ==
    IF group_results = <<>> THEN results
    ELSE extend(results \o group_results[1], Tail(group_results))

\* run(), up to the first await: truncation, batches, semaphore, and the
\* coroutines of the first group.
RunStart ==
    /\ runPc = "idle"
    /\ LET nps == IF Len(nonprofits) > MAX_NONPROFITS
                  THEN SubSeq(nonprofits, 1, MAX_NONPROFITS) ELSE nonprofits
           batches == Batches(nps)
       IN  /\ nonprofits' = nps
           /\ all_results' = <<>>
           /\ sem' = BATCH_SIZE * MAX_PARALLEL_BATCHES
           /\ groupStart' = 0
           /\ IF Len(batches) = 0
              THEN runPc' = "done" /\ task' = task
              ELSE runPc' = "group" /\ task' = Created(task, GroupTasks(batches, 0))
    /\ UNCHANGED <<finished, normVars, cacheVars, harnVars, leadVars, appVars, raceVars, textVars, workVars>>

\* The event loop starts the coroutines in the order of their creation, and
\* all of them before the answer of any call is handed back.
AllStarted == \A p \in DOMAIN task : task[p].pc # "new"

\* _claude_call: how long a call waits before client.messages.create, given
\* the number of calls of the job that failed on a rate limit so far. The call
\* is made at once, whatever happened before; nothing is retried.
DelayBeforeCall(rate_limit_hits) == 0

\* A slip: the entry that was hit is dropped from the table.
Evict_OnCacheHit(tbl, t, cached) ==
    [table |-> {r \in tbl : r.cache_key # _cache_key(t.nonprofit)},
     task |-> Returned(t, Set(Set(cached, "_source", "cache"), "_api_calls", 0), {})]

\* cached["_source"] = "cache"; cached["_api_calls"] = 0; return cached
OnCacheHit(tbl, t, cached) ==
    [table |-> tbl,
     task |-> Returned(t, Set(Set(cached, "_source", "cache"), "_api_calls", 0), {})]

\* The first call of the run is issued: await _claude_call(...) in phase 1.
OnCacheMiss(tbl, t) ==
    [table |-> tbl, task |-> [t EXCEPT !.pc = "scan", !.api_calls = 1]]

\* The run after the cache check, given what cache_get returned.
Checked(t, cached) ==
    IF cached.hit THEN OnCacheHit(cached.table, t, cached.ret)
    ELSE OnCacheMiss(cached.table, t)

\* A slip: the run goes on without taking a permit.
NoAcquire_Enter(p, r) ==
    /\ research_cache' = r.table
    /\ task' = [task EXCEPT ![p] = r.task]
    /\ sem' = sem
    /\ finished' = IF r.task.pc = "done" THEN Append(finished, p) ELSE finished

\* The semaphore is held from here on unless the run has returned already.
Enter(p, r) ==
    /\ research_cache' = r.table
    /\ task' = [task EXCEPT ![p] = r.task]
    /\ IF r.task.pc = "done"
       THEN sem' = sem /\ finished' = Append(finished, p)
       ELSE sem' = sem - 1 /\ finished' = finished

\* research_nonprofit up to its first await: the semaphore and the cache check.
Start(p) ==
    /\ runPc = "group" /\ task[p].pc = "new"
    /\ \A q \in DOMAIN task : q < p => task[q].pc # "new"
    /\ sem > 0
    /\ Enter(p, Checked(task[p], cache_get(research_cache, now, task[p].nonprofit)))
    /\ UNCHANGED <<now, ticks, nonprofits, runPc, groupStart, all_results,
                   normVars, harnVars, leadVars, appVars, raceVars, textVars, workVars>>

\* The coroutine goes on to its next await, or returns and frees the semaphore.
Resume(p, r) ==
    /\ research_cache' = r.table
    /\ task' = [task EXCEPT ![p] = r.task]
    /\ IF r.task.pc \in {"done", "raised"}
       THEN sem' = sem + 1 /\ finished' = Append(finished, p)
       ELSE UNCHANGED <<sem, finished>>
    /\ UNCHANGED <<now, ticks, nonprofits, runPc, groupStart, all_results,
                   normVars, harnVars, leadVars, appVars, raceVars, textVars, workVars>>

\* One more research call of the run has come back.
Called(t) == [t EXCEPT !.calls = @ + 1]

\* The call that has come back asked for field missing[k]: whether it failed,
\* whether it answered with an empty value, and the record it came back to.
Asked(t, reply) ==
    [t EXCEPT !.asked = Append(@, t.missing[t.k]),
              !.trail = Append(@,
                  [failed |-> reply.parses # "object",
                   empty |-> /\ reply.parses = "object"
                             /\ strip(Get(reply.value, t.missing[t.k], "")) = "",
                   before |-> t.result[1]])]

QuickScanReturns(p) ==
    /\ runPc = "group" /\ AllStarted /\ task[p].pc = "scan"
    /\ \E reply \in QuickScanReplies(task[p].nonprofit) :
          Resume(p, QuickScanDone(research_cache, now, Called(task[p]), reply))

DeepResearchReturns(p) ==
    /\ runPc = "group" /\ AllStarted /\ task[p].pc = "deep"
    /\ \E reply \in DeepResearchReplies(task[p].nonprofit) :
          Resume(p, DeepResearchDone(research_cache, now, Called(task[p]), reply))

FollowupReturns(p) ==
    /\ runPc = "group" /\ AllStarted /\ task[p].pc = "followup"
    /\ \E reply \in FollowupReplies(task[p].nonprofit, task[p].missing[task[p].k]) :
          Resume(p, FollowupDone(research_cache, now, Asked(Called(task[p]), reply), reply))

\* Both gathers of a group return: all_results is extended batch by batch,
\* and the next group is created or run() returns.  An exception of one
\* coroutine goes through both gathers and out of run().
GroupDone ==
    /\ runPc = "group"
    /\ LET batches == Batches(nonprofits)
           i == groupStart
           group == Group(batches, i)
           idxs(j) == [n \in 1..Len(group[j]) |-> IndexOf(batches, i, j - 1, n - 1)]
           mine == UNION {Range(idxs(j)) : j \in 1..Len(group)}
           completed == Min(i + MAX_PARALLEL_BATCHES, Len(batches))
       IN  /\ \/ \E p \in mine : task[p].pc = "raised"
              \/ \A p \in mine : task[p].pc = "done"
           /\ IF \E p \in mine : task[p].pc = "raised"
              THEN runPc' = "raised"
                   /\ UNCHANGED <<all_results, groupStart, task, finished>>
              ELSE /\ all_results' =
                         extend(all_results, [j \in 1..Len(group) |-> gather(idxs(j))])
                   /\ IF completed < Len(batches)
                      THEN /\ groupStart' = i + MAX_PARALLEL_BATCHES
                           /\ task' = Created(task,
                                         GroupTasks(batches, i + MAX_PARALLEL_BATCHES))
                           /\ finished' = <<>>
                           /\ runPc' = runPc
                      ELSE runPc' = "done" /\ UNCHANGED <<groupStart, task, finished>>
    /\ UNCHANGED <<nonprofits, sem, normVars, cacheVars, harnVars, leadVars, appVars, raceVars, textVars, workVars>>

Init ==
    /\ nRaw = "" /\ nKey = None
    /\ research_cache = SeedCache /\ now = StartInstant /\ ticks = 0
    /\ lastOp = NoOp /\ lastPut = [k \in CacheKeys |-> <<>>] /\ gone = {}
    /\ pool = {} /\ ops = 0
    /\ nonprofits \in JobLists /\ runPc = "idle" /\ groupStart = 0
    /\ all_results = <<>> /\ task = <<>> /\ sem = 0 /\ finished = <<>>
    /\ lead = <<>> /\ verdict = <<>>
    /\ idx = 0 /\ balance_exhausted = FALSE /\ balance_cents = 0
    /\ caller = <<>> /\ effects = {} /\ topups = 0
    /\ thread = <<>>
    /\ response = <<>> /\ extracted = <<>>
    /\ jobs = <<>> /\ progress_q = <<>> /\ workerPc = "none"

Next ==
    \/ RunStart
    \/ \E p \in DOMAIN task : Start(p)
    \/ \E p \in DOMAIN task : QuickScanReturns(p)
    \/ \E p \in DOMAIN task : DeepResearchReturns(p)
    \/ \E p \in DOMAIN task : FollowupReturns(p)
    \/ GroupDone
    \/ Tick

Spec == Init /\ [][Next]_vars

(***************************************************************************)
(* app._research_one and app._run_job: one identifier at a time, charged   *)
(* to the wallet of the user                                               *)
(***************************************************************************)
MaxTopUps == 1

get_research_fee_cents(total_nonprofits) ==
    IF total_nonprofits <= 10000 THEN 4
    ELSE IF total_nonprofits <= 50000 THEN 3 ELSE 2

\* What the Poe bot answered: no text, text without events, or text whose
\* first event _poe_result_to_full turns into the record full.
Silent == [text |-> "", events |-> 0, full |-> <<>>]
NoEvents == [text |-> "nothing", events |-> 0, full |-> <<>>]
Event(full) == [text |-> "[{...}]", events |-> 1, full |-> full]

PoeAnswers(nonprofit) ==
    LET org == _cache_key(nonprofit)
    IN  CASE org = "f.org" ->
               {Event(Deep(Lead("F Org", "f.org"), "found", 95)),
                Event(Deep(Without(Lead("F Org", "f.org"),
                                   {"contact_email", "contact_name"}), "found", 80))}
          [] org = "n.org" -> {NoEvents, Event(Deep(NoLead("N Org"), "not_found", 90))}
          [] org = "x.org" ->
               {Silent, Event(Deep([Lead("X Org", "x.org") EXCEPT
                                       !.event_date = "12/31/9999"], "found", 90))}
          [] OTHER -> {Silent}

AppJobLists ==
    {<<"h.org", "f.org", "f.org", "n.org">>,
     <<"f.org", "n.org", "h.org", "x.org">>,
     <<"n.org", "x.org">>,
     <<>>}

Callers ==
    [user_id : {0, 7}, is_admin : BOOLEAN, is_trial : BOOLEAN]

Balances == {0, 3, 154, 160, 400}

\* The outcome of _research_one: the record returned, the cache, the wallet,
\* balance_exhausted[0], what was done, and whether an exception left it.
Outcome(result, tbl, bal, exhausted, did, raised) ==
    [result |-> result, table |-> tbl, balance |-> bal, exhausted |-> exhausted,
     effects |-> did, raised |-> raised]

\* charge_research_fee and, for a priced lead, charge_lead_fee
Pay(bal, fee, price) ==
    [balance |-> bal - fee - (IF price > 0 THEN price ELSE 0), short |-> FALSE,
     effects |-> {"research_fee"} \cup (IF price > 0 THEN {"lead_fee"} ELSE {})]

\* balance_exhausted[0] = True
Short(bal) == [balance |-> bal, short |-> TRUE, effects |-> {}]

NoCharge(bal) == [balance |-> bal, short |-> FALSE, effects |-> {}]

Billed(c) == c.user_id # 0 /\ ~c.is_admin

\* The fees of a record served from the cache.
HitBilling(c, fee, status, price, bal) ==
    IF Billed(c) /\ status \in {"found", "3rdpty_found"} /\ price > 0
    THEN IF bal >= fee + price THEN Pay(bal, fee, price) ELSE Short(bal)
    ELSE IF Billed(c) /\ ~c.is_trial
         THEN IF bal >= fee THEN Pay(bal, fee, 0) ELSE NoCharge(bal)
         ELSE NoCharge(bal)

\* The fees of a record just researched.
MissBilling(c, fee, price, bal) ==
    IF ~Billed(c) THEN NoCharge(bal)
    ELSE IF c.is_trial
         THEN IF price <= 0 THEN NoCharge(bal)
              ELSE IF bal >= fee + price THEN Pay(bal, fee, price) ELSE Short(bal)
         ELSE IF bal >= fee + (IF price > 0 THEN price ELSE 0)
              THEN Pay(bal, fee, price) ELSE Short(bal)

Marked(result, bill) ==
    IF bill.short THEN Set(result, "_balance_exhausted", TRUE) ELSE result

\* return cached, after the fees
HitBilled(tbl, exhausted, cached, bill) ==
    Outcome(Marked(cached, bill), tbl, bill.balance, exhausted \/ bill.short,
            {"cache_get"} \cup bill.effects, FALSE)

OnHit(c, total, tbl, bal, exhausted, cached) ==
    HitBilled(tbl, exhausted, cached,
              HitBilling(c, get_research_fee_cents(total),
                         Get(cached, "status", "uncertain"),
                         classify_lead_tier(cached)[2], bal))

\* cache_put(nonprofit, result); return result
Put(result, bal, exhausted, did, put) ==
    Outcome(result, put.table, bal, exhausted, did \cup {"cache_put"}, put.raised)

MissBilled(nonprofit, tbl, tm, exhausted, result, bill) ==
    Put(Marked(result, bill), bill.balance, exhausted \/ bill.short,
        {"cache_get", "call"} \cup bill.effects,
        cache_put(tbl, tm, nonprofit, Marked(result, bill)))

OnEvent(nonprofit, c, total, tbl, tm, bal, exhausted, result) ==
    MissBilled(nonprofit, tbl, tm, exhausted, result,
               MissBilling(c, get_research_fee_cents(total),
                           classify_lead_tier(result)[2], bal))

OnMiss(nonprofit, c, total, tbl, tm, bal, exhausted, answer) ==
    IF answer.text = ""
    THEN Outcome(_error_result(nonprofit, "Poe bot returned empty response", "", tm),
                 tbl, bal, exhausted, {"cache_get", "call"}, FALSE)
    ELSE IF answer.events = 0
    THEN Put(_error_result(nonprofit, "No JSON events in Poe response",
                           answer.text, tm),
             bal, exhausted, {"cache_get", "call"},
             cache_put(tbl, tm, nonprofit,
                       _error_result(nonprofit, "No JSON events in Poe response",
                                     answer.text, tm)))
    ELSE OnEvent(nonprofit, c, total, tbl, tm, bal, exhausted,
                 Set(answer.full, "_api_calls", 1))

AfterCacheCheck(nonprofit, c, total, tm, bal, exhausted, answer, cached) ==
    IF cached.hit
    THEN OnHit(c, total, cached.table, bal, exhausted,
               Set(Set(cached.ret, "_source", "cache"), "_api_calls", 0))
    ELSE OnMiss(nonprofit, c, total, cached.table, tm, bal, exhausted, answer)

_research_one(nonprofit, c, total, tbl, tm, bal, exhausted, answer) ==
    IF exhausted
    THEN Outcome(Set(_error_result(nonprofit, "Skipped - insufficient balance", "", tm),
                     "_balance_skipped", TRUE),
                 tbl, bal, exhausted, {}, FALSE)
    ELSE AfterCacheCheck(nonprofit, c, total, tm, bal, exhausted, answer,
                         cache_get(tbl, tm, nonprofit))

\* The records _run_job writes to the result files: all of them for an
\* admin, the billable ones otherwise, and of those the full ones in
\* complete_only mode.
BillableOnly(results, is_admin, complete_only) ==
    IF complete_only /\ ~is_admin
    THEN SelectSeq(results, LAMBDA r : classify_lead_tier(r)[1] = "full")
    ELSE results

save_results(results, is_admin, complete_only) ==
    BillableOnly(IF is_admin THEN results
                 ELSE SelectSeq(results, LAMBDA r : classify_lead_tier(r)[2] > 0),
                 is_admin, complete_only)

\* A slip: the loop goes on whatever the flag says.
Never_Stop(exhausted, is_admin) == FALSE

\* if balance_exhausted[0] and not is_admin: ... break
Stop(exhausted, is_admin) == exhausted /\ ~is_admin

\* _run_job up to the loop.
JobStart ==
    /\ runPc = "idle"
    /\ nonprofits' = IF Len(nonprofits) > MAX_NONPROFITS
                     THEN SubSeq(nonprofits, 1, MAX_NONPROFITS) ELSE nonprofits
    /\ all_results' = <<>> /\ balance_exhausted' = FALSE /\ idx' = 1
    /\ runPc' = "loop"
    /\ UNCHANGED <<balance_cents, caller, effects, topups, groupStart, task, sem,
                   finished, normVars, cacheVars, harnVars, leadVars, raceVars, textVars, workVars>>

\* The loop stops early: the balance is exhausted.
Break ==
    /\ runPc = "loop" /\ idx <= Len(nonprofits)
    /\ Stop(balance_exhausted, caller.is_admin)
    /\ runPc' = "done"
    /\ UNCHANGED <<nonprofits, all_results, groupStart, task, sem, finished,
                   normVars, cacheVars, harnVars, leadVars, appVars, raceVars, textVars, workVars>>

\* The loop has gone through the list.
Exhaust ==
    /\ runPc = "loop" /\ idx > Len(nonprofits)
    /\ runPc' = "done"
    /\ UNCHANGED <<nonprofits, all_results, groupStart, task, sem, finished,
                   normVars, cacheVars, harnVars, leadVars, appVars, raceVars, textVars, workVars>>

\* One pass of the loop, given what _research_one did.
Pass(r) ==
    /\ research_cache' = r.table
    /\ balance_cents' = r.balance
    /\ balance_exhausted' = r.exhausted
    /\ effects' = effects \cup {[idx |-> idx, op |-> e] : e \in r.effects}
    /\ IF r.raised
       THEN runPc' = "raised" /\ UNCHANGED <<all_results, idx>>
       ELSE /\ all_results' = Append(all_results, r.result)
            /\ idx' = idx + 1 /\ runPc' = runPc

ResearchOne ==
    /\ runPc = "loop" /\ idx <= Len(nonprofits)
    /\ ~Stop(balance_exhausted, caller.is_admin)
    /\ \E answer \in PoeAnswers(nonprofits[idx]) :
          Pass(_research_one(nonprofits[idx], caller, Len(nonprofits),
                             research_cache, now, balance_cents,
                             balance_exhausted, answer))
    /\ UNCHANGED <<now, ticks, nonprofits, caller, topups, groupStart, task, sem,
                   finished, normVars, harnVars, leadVars, raceVars, textVars, workVars>>

\* add_funds: the user tops the wallet up while the job runs.
AddFunds ==
    /\ runPc = "loop" /\ topups < MaxTopUps /\ caller.user_id # 0
    /\ balance_cents' = balance_cents + 500
    /\ topups' = topups + 1
    /\ UNCHANGED <<idx, balance_exhausted, caller, effects, jobVars, normVars,
                   cacheVars, harnVars, leadVars, raceVars, textVars, workVars>>

InitApp ==
    /\ nRaw = "" /\ nKey = None
    /\ research_cache = SeedCache /\ now = StartInstant /\ ticks = 0
    /\ lastOp = NoOp /\ lastPut = [k \in CacheKeys |-> <<>>] /\ gone = {}
    /\ pool = {} /\ ops = 0
    /\ nonprofits \in AppJobLists /\ runPc = "idle" /\ groupStart = 0
    /\ all_results = <<>> /\ task = <<>> /\ sem = 0 /\ finished = <<>>
    /\ lead = <<>> /\ verdict = <<>>
    /\ idx = 0 /\ balance_exhausted = FALSE /\ balance_cents \in Balances
    /\ caller \in Callers /\ effects = {} /\ topups = 0
    /\ thread = <<>>
    /\ response = <<>> /\ extracted = <<>>
    /\ jobs = <<>> /\ progress_q = <<>> /\ workerPc = "none"

NextApp == JobStart \/ ResearchOne \/ Break \/ Exhaust \/ AddFunds

SpecApp == InitApp /\ [][NextApp]_vars

(***************************************************************************)
(* The cache called by several threads: cache_get is a SELECT and, for an  *)
(* expired row, a DELETE by key in a second statement                      *)
(***************************************************************************)
Threads == {"t1", "t2"}

RaceKeys == {"x.org"}

RaceIds == {"x.org", " X.Org\n"}

\* What the threads put: a record that is good for an hour, one that is good
\* until the day after its event, one that is good for thirty days.
RacePool ==
    {CacheRecord("uncertain", "", ""), CacheRecord("found", "3/5/2026", "Gala"),
     CacheRecord("not_found", "", "")}

Idle == [pc |-> "idle", id |-> "", ret |-> <<>>, at |-> NoInstant, seen |-> 0]

\* cache_put: one INSERT ... ON CONFLICT DO UPDATE, committed.
ThreadPut(th) ==
    \E id \in RaceIds, rec \in pool :
        /\ thread[th].pc = "idle" /\ ops < MaxOps
        /\ ops' = ops + 1
        /\ research_cache' = cache_put(research_cache, now, id, rec).table
        /\ lastPut' = [lastPut EXCEPT ![_cache_key(id)] =
                          <<[rec |-> rec, at |-> now, id |-> id,
                             n |-> Len(@) + 1]>> \o @]
        /\ UNCHANGED <<now, ticks, lastOp, gone, pool, thread, normVars, jobVars,
                       leadVars, appVars, textVars, workVars>>

\* What cache_get does with the row it fetched, at instant t: nothing found,
\* an expired row to delete, or the record to return. seen is the number of
\* puts for the key that were complete when the row was fetched.
Fetched(id, rows, t, seen) ==
    IF rows = {} THEN [Idle EXCEPT !.id = id, !.at = t, !.seen = seen]
    ELSE IF t > FetchOne(rows).expires_at
         THEN [Idle EXCEPT !.pc = "delete", !.id = id, !.at = t, !.seen = seen]
         ELSE [Idle EXCEPT !.id = id, !.at = t, !.seen = seen,
                           !.ret = <<_json_loads(FetchOne(rows).result_json)>>]

\* cache_get up to the expiry check: the SELECT and the comparison.
ThreadSelect(th) ==
    \E id \in RaceIds :
        /\ thread[th].pc = "idle" /\ ops < MaxOps
        /\ ops' = ops + 1
        /\ thread' = [thread EXCEPT ![th] =
                         Fetched(id, SelectRows(research_cache, _cache_key(id)), now,
                                 Len(lastPut[_cache_key(id)]))]
        /\ UNCHANGED <<research_cache, now, ticks, lastOp, lastPut, gone, pool, normVars,
                       jobVars, leadVars, appVars, textVars, workVars>>

\* DELETE FROM research_cache WHERE cache_key = %s; commit; return None
ThreadDelete(th) ==
    /\ thread[th].pc = "delete"
    /\ research_cache' =
          {r \in research_cache : r.cache_key # _cache_key(thread[th].id)}
    /\ thread' = [thread EXCEPT ![th].pc = "idle"]
    /\ UNCHANGED <<now, ticks, harnVars, normVars, jobVars, leadVars, appVars, textVars, workVars>>

InitRace ==
    /\ nRaw = "" /\ nKey = None
    /\ research_cache = SeedCache /\ now = StartInstant /\ ticks = 0
    /\ lastOp = NoOp /\ lastPut = [k \in RaceKeys |-> <<>>] /\ gone = {}
    /\ pool = RacePool /\ ops = 0
    /\ nonprofits = <<>> /\ runPc = "idle" /\ groupStart = 0
    /\ all_results = <<>> /\ task = <<>> /\ sem = 0 /\ finished = <<>>
    /\ lead = <<>> /\ verdict = <<>>
    /\ idx = 0 /\ balance_exhausted = FALSE /\ balance_cents = 0
    /\ caller = <<>> /\ effects = {} /\ topups = 0
    /\ thread = [th \in Threads |-> Idle]
    /\ response = <<>> /\ extracted = <<>>
    /\ jobs = <<>> /\ progress_q = <<>> /\ workerPc = "none"

NextRace ==
    \/ \E th \in Threads : ThreadPut(th)
    \/ \E th \in Threads : ThreadSelect(th)
    \/ \E th \in Threads : ThreadDelete(th)
    \/ Tick

SpecRace == InitRace /\ [][NextRace]_vars

(***************************************************************************)
(* json.loads on the text of a response. A value is a tagged tuple:        *)
(* <<"obj", members>>, <<"arr", elements>>, <<"str", s>>, <<"int", digits>>,*)
(* <<"bool", b>>, <<"null">>. Fractions, exponents and \u escapes are left *)
(* out of the texts and of the parser.                                     *)
(***************************************************************************)
NoJson == [ok |-> FALSE, val |-> <<>>, end |-> 0]

\* A value and the index right after it.
Json(v, e) == [ok |-> TRUE, val |-> v, end |-> e]

\* s[i:].startswith(lit)
At(s, i, lit) ==
    i + Len(lit) - 1 <= Len(s) /\ SubSeq(s, i, i + Len(lit) - 1) = lit

\* json.decoder.WHITESPACE.match(s, i).end()
RECURSIVE SkipWs(_, _)
SkipWs(s, i) ==
    IF i <= Len(s) /\ Ch(s, i) \in Whitespace THEN SkipWs(s, i + 1) ELSE i

\* json.decoder.BACKSLASH
Escapes ==
    "\"" :> "\"" @@ "\\" :> "\\" @@ "/" :> "/" @@
    "n" :> "\n" @@ "t" :> "\t" @@ "r" :> "\r"

\* json.decoder.py_scanstring, strict: i is right after the opening quote.
RECURSIVE ScanString(_, _, _)
ScanString(s, i, acc) ==
    IF i > Len(s) THEN NoJson
    ELSE IF Ch(s, i) = "\"" THEN Json(<<"str", acc>>, i + 1)
    ELSE IF Ch(s, i) = "\\"
         THEN IF i + 1 <= Len(s) /\ Ch(s, i + 1) \in DOMAIN Escapes
              THEN ScanString(s, i + 2, acc \o Escapes[Ch(s, i + 1)])
              ELSE NoJson
    ELSE IF Ch(s, i) \in {"\n", "\t", "\r"} THEN NoJson
    ELSE ScanString(s, i + 1, acc \o Ch(s, i))

RECURSIVE DigitsEnd(_, _)
DigitsEnd(s, i) ==
    IF i <= Len(s) /\ IsDigit(Ch(s, i)) THEN DigitsEnd(s, i + 1) ELSE i

\* json.scanner.NUMBER_RE, the integer part: -?(0|[1-9]\d*)
IntFrom(s, i, d) ==
    IF d > Len(s) \/ ~IsDigit(Ch(s, d)) THEN NoJson
    ELSE IF Ch(s, d) = "0" THEN Json(<<"int", SubSeq(s, i, d)>>, d + 1)
    ELSE Json(<<"int", SubSeq(s, i, DigitsEnd(s, d) - 1)>>, DigitsEnd(s, d))

ScanNumber(s, i) == IntFrom(s, i, IF Ch(s, i) = "-" THEN i + 1 ELSE i)

ScanLiteral(s, i) ==
    IF At(s, i, "null") THEN Json(<<"null">>, i + 4)
    ELSE IF At(s, i, "true") THEN Json(<<"bool", TRUE>>, i + 4)
    ELSE IF At(s, i, "false") THEN Json(<<"bool", FALSE>>, i + 5)
    ELSE NoJson

RECURSIVE ParseValue(_, _)
RECURSIVE ParseMembers(_, _, _)
RECURSIVE ParseElements(_, _, _)

\* json.decoder.JSONObject after a member: a comma and the next, or the end.
AfterMember(s, k, d) ==
    IF k > Len(s) THEN NoJson
    ELSE IF Ch(s, k) = "}" THEN Json(<<"obj", d>>, k + 1)
    ELSE IF Ch(s, k) = "," THEN ParseMembers(s, SkipWs(s, k + 1), d)
    ELSE NoJson

\* The value of a member; a key that comes again replaces the earlier one.
AfterValue(s, key, v, d) ==
    IF ~v.ok THEN NoJson
    ELSE AfterMember(s, SkipWs(s, v.end), (key :> v.val) @@ d)

AfterKey(s, key, d) ==
    IF ~key.ok THEN NoJson
    ELSE IF SkipWs(s, key.end) > Len(s) \/ Ch(s, SkipWs(s, key.end)) # ":"
         THEN NoJson
    ELSE AfterValue(s, key.val[2],
                    ParseValue(s, SkipWs(s, SkipWs(s, key.end) + 1)), d)

ParseMembers(s, i, d) ==
    IF i > Len(s) \/ Ch(s, i) # "\"" THEN NoJson
    ELSE AfterKey(s, ScanString(s, i + 1, ""), d)

\* json.decoder.JSONArray after an element.
AfterElement(s, v, k, a) ==
    IF k > Len(s) THEN NoJson
    ELSE IF Ch(s, k) = "]" THEN Json(<<"arr", Append(a, v.val)>>, k + 1)
    ELSE IF Ch(s, k) = ","
         THEN ParseElements(s, SkipWs(s, k + 1), Append(a, v.val))
    ELSE NoJson

Element(s, v, a) ==
    IF ~v.ok THEN NoJson ELSE AfterElement(s, v, SkipWs(s, v.end), a)

ParseElements(s, i, a) == Element(s, ParseValue(s, i), a)

\* json.scanner.py_make_scanner._scan_once
ParseValue(s, i) ==
    IF i > Len(s) THEN NoJson
    ELSE IF Ch(s, i) = "\"" THEN ScanString(s, i + 1, "")
    ELSE IF Ch(s, i) = "{"
         THEN IF At(s, SkipWs(s, i + 1), "}")
              THEN Json(<<"obj", <<>>>>, SkipWs(s, i + 1) + 1)
              ELSE ParseMembers(s, SkipWs(s, i + 1), <<>>)
    ELSE IF Ch(s, i) = "["
         THEN IF At(s, SkipWs(s, i + 1), "]")
              THEN Json(<<"arr", <<>>>>, SkipWs(s, i + 1) + 1)
              ELSE ParseElements(s, SkipWs(s, i + 1), <<>>)
    ELSE IF IsDigit(Ch(s, i)) \/ Ch(s, i) = "-" THEN ScanNumber(s, i)
    ELSE ScanLiteral(s, i)

\* JSONDecoder.decode: one value, whitespace around it, nothing else.
Decoded(s, r) ==
    IF r.ok /\ SkipWs(s, r.end) = Len(s) + 1 THEN r ELSE NoJson

\* json.loads(s); ok is FALSE where it raises JSONDecodeError.
json_loads(s) == Decoded(s, ParseValue(s, SkipWs(s, 1)))

(***************************************************************************)
(* bot.extract_json                                                        *)
(***************************************************************************)
\* The three grave accents of a markdown code fence. A string of the model
\* cannot hold a grave accent; the tilde stands for it.
Fence == "~~~"

JSONDecodeError == [raised |-> TRUE, value |-> <<>>]

Extracted(v) == [raised |-> FALSE, value |-> v]

\* s.endswith(suffix)
EndsWith(s, suffix) ==
    Len(s) >= Len(suffix) /\ SubSeq(s, Len(s) - Len(suffix) + 1, Len(s)) = suffix

DropLast(s, n) == SubSeq(s, 1, Len(s) - n)

\* s.rfind(c), counted from 1; 0 where Python gives -1.
RECURSIVE LastIndexFrom(_, _, _)
LastIndexFrom(s, c, i) ==
    IF i < 1 THEN 0
    ELSE IF Ch(s, i) = c THEN i ELSE LastIndexFrom(s, c, i - 1)

LastIndex(s, c) == LastIndexFrom(s, c, Len(s))

\* re.sub(r"^FENCE(?:json)?\s*\n?", "", text)
OpeningFence(text) ==
    IF ~StartsWith(text, Fence) THEN text
    ELSE IF At(text, 4, "json") THEN lstrip(SubSeq(text, 8, Len(text)))
    ELSE lstrip(SubSeq(text, 4, Len(text)))

\* re.sub(r"\n?FENCE\s*$", "", text), on a text without trailing whitespace
ClosingFence(text) ==
    IF ~EndsWith(text, Fence) THEN text
    ELSE IF EndsWith(DropLast(text, 3), "\n") THEN DropLast(text, 4)
    ELSE DropLast(text, 3)

StripFences(text) == strip(ClosingFence(OpeningFence(strip(text))))

\* The loop over text[start:]: the index at which depth comes back to 0, or
\* 0 when the loop runs to the end of the text.
RECURSIVE BalancedEnd(_, _, _, _, _)
BalancedEnd(text, i, depth, in_string, escape) ==
    IF i > Len(text) THEN 0
    ELSE IF escape THEN BalancedEnd(text, i + 1, depth, in_string, FALSE)
    ELSE IF Ch(text, i) = "\\" THEN BalancedEnd(text, i + 1, depth, in_string, TRUE)
    ELSE IF Ch(text, i) = "\"" THEN BalancedEnd(text, i + 1, depth, ~in_string, FALSE)
    ELSE IF in_string THEN BalancedEnd(text, i + 1, depth, in_string, FALSE)
    ELSE IF Ch(text, i) = "{" THEN BalancedEnd(text, i + 1, depth + 1, FALSE, FALSE)
    ELSE IF Ch(text, i) = "}"
         THEN IF depth - 1 = 0 THEN i
              ELSE BalancedEnd(text, i + 1, depth - 1, FALSE, FALSE)
    ELSE BalancedEnd(text, i + 1, depth, FALSE, FALSE)

\* json.loads(text[start:i + 1]) at the first balanced brace; a failure
\* breaks out of the loop.
Balanced(text, start, i) ==
    IF start = 0 \/ i = 0 THEN JSONDecodeError
    ELSE IF json_loads(SubSeq(text, start, i)).ok
         THEN Extracted(json_loads(SubSeq(text, start, i)).val)
    ELSE JSONDecodeError

\* json.loads(text[start:end + 1]), from the first "{" to the last "}".
FirstToLast(text, start, end) ==
    IF start # 0 /\ end # 0 /\ end > start
          /\ json_loads(SubSeq(text, start, end)).ok
    THEN Extracted(json_loads(SubSeq(text, start, end)).val)
    ELSE Balanced(text, start,
                  IF start = 0 THEN 0 ELSE BalancedEnd(text, start, 0, FALSE, FALSE))

Direct(text) ==
    IF json_loads(text).ok THEN Extracted(json_loads(text).val)
    ELSE FirstToLast(text, Index(text, "{"), LastIndex(text, "}"))

extract_json(text) == Direct(StripFences(text))

(***************************************************************************)
(* A harness for extract_json: a payload, the response text that carries   *)
(* it, and what extract_json does with the text                            *)
(***************************************************************************)
Payloads ==
    {"{\"a\": 1}",
     "{}",
     "{\"a\": {\"b\": \"}\"}}",
     "{\"k\": \"x\\\"y{\", \"n\": null}",
     "{\"status\": \"found\", \"tags\": [1, 20], \"ok\": true}",
     "{ \"a\" : 1 ,\n \"a\" : 2 }",
     "{\"e\": \"a\\\\\", \"u\": \"{{\"}",
     "{\"status\": \"not_found\", \"confidence_score\": 0}"}

Forms ==
    {"bare", "json_fence", "plain_fence", "prose", "prose_fence", "prose_braces",
     "trailing_braces", "trailing_object", "trailing_close", "prose_trailing"}

\* The response text that carries payload P in the form.
Carry(P, form) ==
    CASE form = "bare"            -> P
      [] form = "json_fence"      -> Fence \o "json\n" \o P \o "\n" \o Fence
      [] form = "plain_fence"     -> "  " \o Fence \o "\n" \o P \o Fence \o "\n"
      [] form = "prose"           -> "Here is the result:\n" \o P
      [] form = "prose_fence"     -> "Here it is:\n" \o Fence \o "json\n" \o P \o "\n" \o Fence
      [] form = "prose_braces"    -> "As {requested}: " \o P
      [] form = "trailing_braces" -> P \o "\nNote: {see the event page}"
      [] form = "trailing_object" -> P \o " {\"b\": 2}"
      [] form = "trailing_close"  -> P \o " done }"
      [] form = "prose_trailing"  -> "Result: " \o P \o " (fields {a} and {b})"

\* Response texts that carry no payload.
OtherTexts ==
    {"", "I could not find any event.", "{not json}", "{\"a\": 1", Fence \o "json\n" \o Fence,
     "42", "null", "[1, 2]", "\"found\"", "see } and {", "{\"a\": 01}",
     "{\"a\": 1,}"}

Response(P, form) == [payload |-> P, form |-> form, text |-> Carry(P, form)]

Other(text) == [payload |-> "", form |-> "none", text |-> text]

ExtractJson ==
    /\ response # <<>> /\ extracted = <<>>
    /\ extracted' = <<extract_json(response.text)>>
    /\ UNCHANGED <<response, normVars, cacheVars, harnVars, jobVars, leadVars,
                   appVars, raceVars, workVars>>

InitJson ==
    /\ nRaw = "" /\ nKey = None
    /\ research_cache = {} /\ now = StartInstant /\ ticks = 0
    /\ lastOp = NoOp /\ lastPut = <<>> /\ gone = {}
    /\ pool = {} /\ ops = 0
    /\ nonprofits = <<>> /\ runPc = "idle" /\ groupStart = 0
    /\ all_results = <<>> /\ task = <<>> /\ sem = 0 /\ finished = <<>>
    /\ lead = <<>> /\ verdict = <<>>
    /\ idx = 0 /\ balance_exhausted = FALSE /\ balance_cents = 0
    /\ caller = <<>> /\ effects = {} /\ topups = 0
    /\ thread = <<>>
    /\ response \in {Response(P, form) : P \in Payloads, form \in Forms}
                       \cup {Other(text) : text \in OtherTexts}
    /\ extracted = <<>>
    /\ jobs = <<>> /\ progress_q = <<>> /\ workerPc = "none"

NextJson == ExtractJson

SpecJson == InitJson /\ [][NextJson]_vars

(***************************************************************************)
(* app._job_worker: the thread of one job, its progress queue and the      *)
(* status in app.jobs.  The research of one nonprofit is kept to the       *)
(* events it puts and to whether it raised; every call that goes to the    *)
(* database or to a file may raise.                                        *)
(***************************************************************************)
QueuePut(q, events) == q \o events

\* start_search: jobs[job_id] is created with status "running" and the thread
\* is started with an empty queue.
InitWorker ==
    /\ nRaw = "" /\ nKey = None
    /\ research_cache = SeedCache /\ now = StartInstant /\ ticks = 0
    /\ lastOp = NoOp /\ lastPut = [k \in CacheKeys |-> <<>>] /\ gone = {}
    /\ pool = {} /\ ops = 0
    /\ nonprofits \in AppJobLists /\ runPc = "idle" /\ groupStart = 0
    /\ all_results = <<>> /\ task = <<>> /\ sem = 0 /\ finished = <<>>
    /\ lead = <<>> /\ verdict = <<>>
    /\ idx = 0 /\ balance_exhausted = FALSE /\ balance_cents = 0
    /\ caller \in Callers /\ effects = {} /\ topups = 0
    /\ thread = <<>>
    /\ response = <<>> /\ extracted = <<>>
    /\ jobs = <<"running">> /\ progress_q = <<>> /\ workerPc = "start"

WorkerStep(pc, q, status, i) ==
    /\ workerPc' = pc /\ progress_q' = q /\ jobs' = status /\ idx' = i
    /\ UNCHANGED <<balance_exhausted, balance_cents, caller, effects, topups,
                   jobVars, normVars, cacheVars, harnVars, leadVars, raceVars,
                   textVars>>

\* _run_job is entered: the started event.
RunJobStarted ==
    /\ workerPc = "start"
    /\ WorkerStep("loop", QueuePut(progress_q, <<"started">>), jobs, 1)

\* One pass of the loop of _run_job: the eta event, then _research_one, which
\* puts a processing event and a result event unless it raises in between.
RunJobPass ==
    /\ workerPc = "loop" /\ idx <= Len(nonprofits)
    /\ \E raised \in BOOLEAN :
          IF raised
          THEN WorkerStep("except", QueuePut(progress_q, <<"eta", "processing">>),
                          jobs, idx)
          ELSE WorkerStep("loop",
                          QueuePut(progress_q, <<"eta", "processing", "result">>),
                          jobs, idx + 1)

\* The loop stops early for a user whose balance is exhausted.
RunJobBreak ==
    /\ workerPc = "loop" /\ idx <= Len(nonprofits) /\ idx > 1
    /\ ~caller.is_admin
    /\ WorkerStep("save", QueuePut(progress_q, <<"balance_warning">>), jobs, idx)

\* The loop has gone through the list.
RunJobExhaust ==
    /\ workerPc = "loop" /\ idx > Len(nonprofits)
    /\ WorkerStep("save", progress_q, jobs, idx)

\* The result files are written and the balance is read for the last event.
RunJobSave ==
    /\ workerPc = "save"
    /\ \E raised \in BOOLEAN :
          WorkerStep(IF raised THEN "except" ELSE "announce", progress_q, jobs,
                     idx)

\* The complete event, the sentinel, and the status of the job.
RunJobComplete ==
    /\ workerPc = "announce"
    /\ WorkerStep("persist", QueuePut(progress_q, <<"complete", None>>),
                  <<"complete">>, idx)

\* complete_search_job, still inside _run_job.
RunJobPersist ==
    /\ workerPc = "persist"
    /\ \E raised \in BOOLEAN :
          WorkerStep(IF raised THEN "except" ELSE "mail", progress_q, jobs, idx)

Mailed(user) == user.user_id # 0 /\ ~user.is_admin

\* get_user and emails.send_job_complete, for a user who is not an admin;
\* _send swallows what the mail service raises, get_user does not.
RunJobMail ==
    /\ workerPc = "mail"
    /\ \E raised \in (IF Mailed(caller) THEN BOOLEAN ELSE {FALSE}) :
          WorkerStep(IF raised THEN "except" ELSE "finally", progress_q, jobs,
                     idx)

\* except Exception in _job_worker
WorkerExcept ==
    /\ workerPc = "except"
    /\ WorkerStep("finally", QueuePut(progress_q, <<"error", None>>), <<"error">>,
                  idx)

\* finally: loop.close(), where no name loop is bound: the thread ends with a
\* NameError.
WorkerFinally ==
    /\ workerPc = "finally"
    /\ WorkerStep("died", progress_q, jobs, idx)

NextWorker ==
    \/ RunJobStarted \/ RunJobPass \/ RunJobBreak \/ RunJobExhaust
    \/ RunJobSave \/ RunJobComplete \/ RunJobPersist \/ RunJobMail
    \/ WorkerExcept \/ WorkerFinally

SpecWorker == InitWorker /\ [][NextWorker]_vars

(***************************************************************************)
(* Several jobs of one user, a thread each: app._research_one reads the    *)
(* balance with get_balance and db.charge_research_fee, db.charge_lead_fee *)
(* deduct afterwards, each in a statement and a commit of its own.         *)
(***************************************************************************)
WalletRecords ==
    {a.full : a \in {b \in UNION {PoeAnswers(n) : n \in {"f.org", "n.org", "x.org"}} :
                        b.events = 1}}

Waiting == [pc |-> "idle", read |-> 0, price |-> 0]

\* The fees _research_one decides on, from the balance it has read.
Billing(hit, c, fee, rec, bal) ==
    IF hit
    THEN HitBilling(c, fee, Get(rec, "status", "uncertain"),
                    classify_lead_tier(rec)[2], bal)
    ELSE MissBilling(c, fee, classify_lead_tier(rec)[2], bal)

\* Where the thread goes with the decision: to the two charges, out of the
\* loop (balance_exhausted[0]), or on to the next nonprofit.
Decided(bill, bal, price) ==
    IF "research_fee" \in bill.effects
    THEN [pc |-> "research_fee", read |-> bal,
          price |-> IF "lead_fee" \in bill.effects THEN price ELSE 0]
    ELSE [pc |-> IF bill.short THEN "stopped" ELSE "idle", read |-> bal,
          price |-> 0]

\* get_balance, and the comparison with fee + price
ThreadGetBalance(th) ==
    \E rec \in WalletRecords, hit \in BOOLEAN :
        /\ thread[th].pc = "idle" /\ ops < MaxOps
        /\ ops' = ops + 1
        /\ thread' = [thread EXCEPT ![th] =
                         Decided(Billing(hit, caller,
                                         get_research_fee_cents(Len(nonprofits)),
                                         rec, balance_cents),
                                 balance_cents, classify_lead_tier(rec)[2])]
        /\ UNCHANGED <<research_cache, now, ticks, lastOp, lastPut, gone, pool,
                       normVars, jobVars, leadVars, appVars, textVars, workVars>>

\* charge_research_fee: UPDATE wallets SET balance_cents = balance_cents - fee
ThreadResearchFee(th) ==
    /\ thread[th].pc = "research_fee"
    /\ balance_cents' = balance_cents - get_research_fee_cents(Len(nonprofits))
    /\ thread' = [thread EXCEPT ![th].pc =
                     IF thread[th].price > 0 THEN "lead_fee" ELSE "idle"]
    /\ UNCHANGED <<idx, balance_exhausted, caller, effects, topups, jobVars,
                   normVars, cacheVars, harnVars, leadVars, textVars, workVars>>

\* charge_lead_fee: UPDATE wallets SET balance_cents = balance_cents - price
ThreadLeadFee(th) ==
    /\ thread[th].pc = "lead_fee"
    /\ balance_cents' = balance_cents - thread[th].price
    /\ thread' = [thread EXCEPT ![th].pc = "idle"]
    /\ UNCHANGED <<idx, balance_exhausted, caller, effects, topups, jobVars,
                   normVars, cacheVars, harnVars, leadVars, textVars, workVars>>

\* start_search has started a thread for each of two jobs of the user.
InitWallet ==
    /\ nRaw = "" /\ nKey = None
    /\ research_cache = SeedCache /\ now = StartInstant /\ ticks = 0
    /\ lastOp = NoOp /\ lastPut = [k \in CacheKeys |-> <<>>] /\ gone = {}
    /\ pool = {} /\ ops = 0
    /\ nonprofits = <<"f.org", "n.org", "h.org", "x.org">> /\ runPc = "idle"
    /\ groupStart = 0
    /\ all_results = <<>> /\ task = <<>> /\ sem = 0 /\ finished = <<>>
    /\ lead = <<>> /\ verdict = <<>>
    /\ idx = 0 /\ balance_exhausted = FALSE /\ balance_cents \in Balances
    /\ caller \in {c \in Callers : Billed(c)} /\ effects = {} /\ topups = 0
    /\ thread = [th \in Threads |-> Waiting]
    /\ response = <<>> /\ extracted = <<>>
    /\ jobs = <<>> /\ progress_q = <<>> /\ workerPc = "none"

NextWallet ==
    \E th \in Threads :
        ThreadGetBalance(th) \/ ThreadResearchFee(th) \/ ThreadLeadFee(th)

SpecWallet == InitWallet /\ [][NextWallet]_vars

(***************************************************************************)
(* Properties of the normaliser and of the cache                           *)
(***************************************************************************)
OpKey == _cache_key(lastOp.id)
OpStatus == Get(lastOp.rec[1], "status", "uncertain")
RowsNow(key) == SelectRows(research_cache, key)

\* The record of the latest completed put for the key, and when it was put.
Latest(key) == lastPut[key][1]

\* C10: normalize is total and idempotent, and identifiers that differ only
\* in letter case or in leading/trailing whitespace get the same key: the key
\* of the identifier at hand (the key itself fed back in, or any re-cased or
\* padded variant of the first identifier) is always the key first computed.
C10_NormalizeStable == nKey # None => _cache_key(nRaw) = nKey

C10_Witness == nKey # None /\ nKey # "" /\ nRaw # nKey /\ lower(nRaw) # nRaw

\* 00:00 UTC of the day after each well-formed date of FoundDates.
DayAfter ==
    "3/5/2026" :> Midnight(2026, 3, 6) @@ "03/06/2026" :> Midnight(2026, 3, 7) @@
    " 1/2/2026 " :> Midnight(2026, 1, 3) @@
    "12/31/9999" :> Midnight(9999, 12, 31) + 24

\* C6: a put of a found / 3rdpty_found record leaves an entry that expires
\* at 00:00 UTC of the day after event_date when event_date is M/D/YYYY,
\* whenever the put is made, and 90 days after the put otherwise.
C6_FoundExpiry ==
    (lastOp.op = "put" /\ OpStatus \in {"found", "3rdpty_found"}) =>
        LET d == lastOp.rec[1].event_date
        IN  /\ ~lastOp.raised
            /\ \E r \in RowsNow(OpKey) :
                 r.expires_at = IF d \in DOMAIN DayAfter THEN DayAfter[d]
                                ELSE lastOp.at + 90 * 24

C8_ExpiredInvisible ==
    /\ \A k \in gone : RowsNow(k) = {}
    /\ lastOp.op = "get" =>
         IF lastOp.before = {} THEN ~lastOp.hit /\ RowsNow(OpKey) = {}
         ELSE \A b \in lastOp.before :
                IF lastOp.at > b.expires_at
                THEN ~lastOp.hit /\ RowsNow(OpKey) = {}
                ELSE /\ lastOp.hit
                     /\ lastOp.ret = <<Latest(OpKey).rec>>
                     /\ RowsNow(OpKey) = lastOp.before

C8_Witness ==
    /\ lastOp.op = "get" /\ ~lastOp.hit
    /\ \E b \in lastOp.before : lastOp.at = b.expires_at + 1
    /\ RowsNow(OpKey) = {}

\* C9: the table holds at most one row per normalised key; the row is the
\* one of the latest put for that key, with the expiry computed for it; and
\* a get before that expiry returns the latest record, under whichever
\* spelling of the identifier it was put.
C9_LastPutWins ==
    /\ \A r1, r2 \in research_cache : r1.cache_key = r2.cache_key => r1 = r2
    /\ \A r \in research_cache :
         /\ Len(lastPut[r.cache_key]) > 0
         /\ _json_loads(r.result_json) = Latest(r.cache_key).rec
         /\ r.expires_at =
              _compute_expiry(Latest(r.cache_key).rec, Latest(r.cache_key).at)
    /\ (/\ lastOp.op = "get" /\ Len(lastPut[OpKey]) > 0
        /\ lastOp.at <= _compute_expiry(Latest(OpKey).rec, Latest(OpKey).at))
         => lastOp.hit /\ lastOp.ret = <<Latest(OpKey).rec>>

C9_Witness ==
    /\ lastOp.op = "get" /\ lastOp.hit
    /\ Len(lastPut[OpKey]) >= 2
    /\ Latest(OpKey).id # lastOp.id
    /\ lastPut[OpKey][2].rec # Latest(OpKey).rec
    /\ lastOp.ret = <<Latest(OpKey).rec>>

(***************************************************************************)
(* Properties of the pipeline and of the orchestrator                      *)
(***************************************************************************)
Done(p) == task[p].pc = "done"
Rec(p) == task[p].ret[1]
SameKey(p, q) == _cache_key(task[p].nonprofit) = _cache_key(task[q].nonprofit)

\* The group of batches the coroutine of input position p belongs to.
GroupOf(p) == (p - 1) \div (BATCH_SIZE * MAX_PARALLEL_BATCHES)

\* The run failed while researching: a call raised (rate limit or not), or
\* its answer held no usable record.
ResearchFailed(p) == task[p].fail \in {"rate_limit", "call", "parse"}

\* C1: when run returns, all_results holds one record per identifier of the
\* input list, and the record at position p is the one the pipeline run for
\* the identifier at position p returned, whatever the order in which the
\* runs completed.
C1_ResultsInInputOrder ==
    runPc = "done" =>
        /\ Len(all_results) = Len(nonprofits)
        /\ \A p \in 1..Len(nonprofits) :
              /\ task[p].nonprofit = nonprofits[p]
              /\ all_results[p] = ResultOf(p)

C1_Witness ==
    /\ runPc = "done" /\ Len(nonprofits) = 3
    /\ finished = <<3, 1, 2>>
    /\ all_results = <<ResultOf(1), ResultOf(2), ResultOf(3)>>

\* C2: no exception leaves a pipeline run or the job, whatever the research
\* calls do: every run that ends has returned one record, and when the job
\* ends every identifier's record is in the result list, those of the runs
\* that failed and those of the others.
C2_NoExceptionEscapes ==
    /\ runPc # "raised"
    /\ \A p \in DOMAIN task :
          /\ task[p].pc # "raised"
          /\ Len(task[p].ret) = (IF Done(p) THEN 1 ELSE 0)
    /\ runPc = "done" =>
          \A p \in 1..Len(nonprofits) :
              Done(p) /\ \E n \in DOMAIN all_results : all_results[n] = ResultOf(p)

C2_Witness ==
    /\ runPc = "done"
    /\ \E p, q, r \in DOMAIN task :
          /\ task[p].fail = "call" /\ task[q].fail = "parse"
          /\ task[r].fail = "" /\ Rec(r).status = "found"
          /\ all_results[r] = ResultOf(r)

\* C3: a run whose research call fails or whose answer yields no record
\* returns a record with status "error" and a summary describing the failure.
C3_FailureIsError ==
    \A p \in DOMAIN task :
        (Done(p) /\ ResearchFailed(p)) =>
            /\ Rec(p).status = "error"
            /\ Rec(p).event_summary # ""

\* C4: a run that fails on a rate-limit error (429 / RESOURCE_EXHAUSTED)
\* writes nothing to the cache, so that the next run for the same identifier,
\* nothing else having written its entry, misses the cache and issues a
\* research call again.
C4_RateLimitNotCached ==
    \A p \in DOMAIN task :
        (Done(p) /\ task[p].fail = "rate_limit") =>
            /\ task[p].putRow = {}
            /\ \A q \in DOMAIN task :
                  (/\ SameKey(p, q) /\ GroupOf(q) > GroupOf(p)
                   /\ task[q].pc # "new"
                   /\ \A w \in DOMAIN task \ {q} : SameKey(p, w) => task[w].putRow = {})
                     => task[q].api_calls >= 1

C4_Witness ==
    \E p, q \in DOMAIN task :
        /\ Done(p) /\ task[p].fail = "rate_limit"
        /\ Contains(Rec(p).event_summary, "RESOURCE_EXHAUSTED")
        /\ SameKey(p, q) /\ GroupOf(q) > GroupOf(p)
        /\ Done(q) /\ task[q].api_calls >= 1

\* C5: a run that fails for another reason than rate limiting writes its
\* failure record to the cache with a seven-day expiry.
C5_FailureCachedSevenDays ==
    \A p \in DOMAIN task :
        (Done(p) /\ task[p].fail \in {"call", "parse"}) =>
            \E r \in task[p].putRow :
                /\ _json_loads(r.result_json) = Rec(p)
                /\ r.expires_at = r.created_at + 7 * 24


(***************************************************************************)
(* The lead tiers                                                          *)
(***************************************************************************)
\* A value is there when something is left of it without the whitespace around it.
NonEmpty(record, k) == k \in DOMAIN record /\ strip(record[k]) # ""

HttpUrl(record) ==
    /\ "event_url" \in DOMAIN record
    /\ \E scheme \in {"http://", "https://"} :
          StartsWith(strip(record["event_url"]), scheme)

HasBase(record) ==
    NonEmpty(record, "event_title") /\ NonEmpty(record, "event_date") /\ HttpUrl(record)

\* C11: a record is classified (not_billable, 0) exactly when it lacks an
\* event_title, an event_date or an event_url that begins with http:// or
\* https:// (each read without the whitespace around it); so a record without
\* such an url is not_billable at price 0 whatever else it holds, and a record
\* with all three gets another tier and a price above 0.
C11_NotBillableIffNoBase ==
    verdict # <<>> =>
        /\ (verdict[1] = <<"not_billable", 0>>) <=> ~HasBase(lead)
        /\ ~HttpUrl(lead) => verdict[1] = <<"not_billable", 0>>
        /\ HasBase(lead) => verdict[1][1] # "not_billable" /\ verdict[1][2] > 0

\* A record with everything but an http(s) url: the url has another scheme.
C11_Witness ==
    /\ verdict # <<>>
    /\ NonEmpty(lead, "event_title") /\ NonEmpty(lead, "event_date")
    /\ NonEmpty(lead, "contact_name") /\ NonEmpty(lead, "contact_email")
    /\ NonEmpty(lead, "event_url") /\ ~HttpUrl(lead)
    /\ verdict[1] = <<"not_billable", 0>>


ValidEmail(record) == _is_valid_email(Get(record, "contact_email", ""))

Starts(p) == p \in DOMAIN task' /\ task[p].pc = "new" /\ task'[p].pc # "new"

\* What cache_get hands the run at position p at its entry.
AtEntry(p) == cache_get(research_cache, now, task[p].nonprofit)

Marks == {"_source", "_api_calls"}

\* C13: a run that finds its identifier in the cache returns at once the
\* cached record marked _source = "cache" and _api_calls = 0, without any
\* research call and without writing the cache: the rows stored under its key
\* are the same after the step as before.
C13_CacheHitShortCircuits ==
    [][\A p \in DOMAIN task :
          (Starts(p) /\ AtEntry(p).hit) =>
              /\ task'[p].pc = "done"
              /\ task'[p].ret[1]["_source"] = "cache"
              /\ task'[p].ret[1]["_api_calls"] = 0
              /\ \A k \in DOMAIN AtEntry(p).ret \ Marks :
                    task'[p].ret[1][k] = AtEntry(p).ret[k]
              /\ task'[p].api_calls = 0 /\ task'[p].putRow = {}
              /\ SelectRows(research_cache', _cache_key(task[p].nonprofit))
                    = SelectRows(research_cache, _cache_key(task[p].nonprofit))]_vars

\* A run returned a record from the cache that an earlier run of the same job
\* had put there.
C13_Witness ==
    \E p, q \in DOMAIN task :
        /\ Done(p) /\ Get(Rec(p), "_source", "") = "cache" /\ task[p].api_calls = 0
        /\ SameKey(p, q) /\ GroupOf(q) < GroupOf(p) /\ task[q].putRow # {}
        /\ SelectRows(research_cache, _cache_key(task[p].nonprofit)) = task[q].putRow


\* The answer of the quick scan of the run at position p, once it is there.
Scanned(p) == task[p].scan # <<>>
ScanOf(p) == task[p].scan[1]
Negative(p) == Scanned(p) /\ ~Get(ScanOf(p), "has_event", FALSE)
Positive(p) == Scanned(p) /\ Get(ScanOf(p), "has_event", FALSE)
Confidence(p) == Get(ScanOf(p), "confidence", 0)

\* C14: a run whose quick scan reports no event with confidence 0.80 or more
\* has returned a not_found record after that one call (no call of phase 2 or
\* 3 is issued), and has written the record to the cache.
C14_QuickNegative ==
    \A p \in DOMAIN task :
        (Negative(p) /\ Confidence(p) >= 80) =>
            /\ Done(p) /\ Rec(p).status = "not_found"
            /\ task[p].api_calls = 1 /\ Rec(p)["_api_calls"] = 1
            /\ \E row \in task[p].putRow :
                  /\ row.cache_key = _cache_key(task[p].nonprofit)
                  /\ row.status = "not_found"
                  /\ _json_loads(row.result_json) = Rec(p)

\* The scan said "no event" at exactly 0.80.
C14_Witness ==
    \E p \in DOMAIN task :
        /\ Negative(p) /\ Confidence(p) = 80 /\ Done(p)
        /\ Rec(p).status = "not_found" /\ task[p].api_calls = 1
        /\ task[p].putRow \subseteq research_cache /\ task[p].putRow # {}

\* C15: a run that returns a found record straight after the quick scan had
\* a scan of confidence 0.85 or more whose record holds event_title,
\* event_date, a valid event_url, contact_name, a valid contact_email,
\* evidence_date and evidence_auction; a positive scan that lacks any of them
\* is followed by the call of phase 2.
C15_QuickFullHasEverything ==
    \A p \in DOMAIN task :
        /\ (Done(p) /\ task[p].api_calls = 1 /\ task[p].fail = ""
                    /\ Rec(p).status = "found")
             => /\ Positive(p) /\ Confidence(p) >= 85
                /\ HasBase(Rec(p)) /\ NonEmpty(Rec(p), "contact_name")
                /\ ValidEmail(Rec(p))
                /\ NonEmpty(Rec(p), "evidence_date")
                /\ NonEmpty(Rec(p), "evidence_auction")
        /\ (/\ Positive(p)
            /\ \/ ~HasBase(ScanOf(p)) \/ ~NonEmpty(ScanOf(p), "contact_name")
               \/ ~ValidEmail(ScanOf(p))
               \/ ~NonEmpty(ScanOf(p), "evidence_date")
               \/ ~NonEmpty(ScanOf(p), "evidence_auction"))
             => task[p].api_calls >= 2


(***************************************************************************)
(* The orchestrator: concurrency                                           *)
(***************************************************************************)
\* The worker bound: the size of the semaphore run() creates.
W == BATCH_SIZE * MAX_PARALLEL_BATCHES

\* The runs that hold the semaphore: they took it and wait for a call.
InFlight == {p \in DOMAIN task : task[p].pc \in {"scan", "deep", "followup"}}

Worker(p) == (p - 1) % W

\* C17: with the identifiers dealt round-robin to W logical workers, two
\* identifiers of the same worker are never in flight at the same moment, and
\* the run of the later one is started only after the run of the earlier one
\* has returned its record.
C17_WorkerOneAtATime ==
    \A p, q \in DOMAIN task :
        (p < q /\ Worker(p) = Worker(q)) =>
            /\ ~(p \in InFlight /\ q \in InFlight)
            /\ task[q].pc # "new" => Done(p)

\* The second identifier of a worker is in flight; its first one took calls too.
C17_Witness ==
    \E p, q \in DOMAIN task :
        /\ p < q /\ Worker(p) = Worker(q)
        /\ q \in InFlight /\ Done(p) /\ task[p].api_calls >= 1


\* C18: within a job, two runs for identifiers with the same normalized key
\* are never in flight at the same time, also when the input list holds the
\* identifier more than once.
C18_OneRunPerKey ==
    \A p, q \in InFlight : SameKey(p, q) => p = q


(***************************************************************************)
(* The job of the web application: the balance runs out                    *)
(***************************************************************************)
\* The abort signal is up in a job that is not an administrator's.
Aborting == runPc \in {"loop", "done"} /\ balance_exhausted /\ ~caller.is_admin

\* C19: once the balance has been found insufficient in a job that is not
\* an administrator's, no later identifier is dispatched: from then on the
\* job makes no research call, cache access or charge (nothing is added to
\* what was done, the cache and the position of the loop stay as they are,
\* the wallet is not debited), and the records collected so far, one per
\* identifier up to the one that raised the signal, stay in the results.
C19_AbortStopsDispatch ==
    [][Aborting =>
          /\ effects' = effects /\ research_cache' = research_cache
          /\ balance_cents' >= balance_cents
          /\ idx' = idx /\ all_results' = all_results
          /\ Len(all_results) = idx - 1
          /\ \A e \in effects : e.idx < idx
          /\ Get(all_results[idx - 1], "_balance_exhausted", FALSE)]_vars

\* The job stopped at its third identifier with two identifiers charged before,
\* and the wallet topped up after the signal.
C19_Witness ==
    /\ Aborting /\ runPc = "done" /\ topups > 0
    /\ Len(all_results) = 3 /\ Len(nonprofits) = 4
    /\ Get(all_results[3], "_balance_exhausted", FALSE)
    /\ \E e \in effects : e.idx = 1 /\ e.op = "lead_fee"
    /\ balance_cents >= 500


(***************************************************************************)
(* The research client: rate limits                                        *)
(***************************************************************************)
\* The calls of the job that failed on a rate limit so far.
RateLimitHits == Cardinality({p \in DOMAIN task : task[p].fail = "rate_limit"})

\* C20: the back-off delay is shared by all workers: when a call of one run
\* fails on a rate limit while other runs are in flight, the delay applied
\* before the next call of those runs is larger than it was before.
C20_SharedBackoffGrows ==
    [][(RateLimitHits' > RateLimitHits /\ InFlight' # {}) =>
          DelayBeforeCall(RateLimitHits') > DelayBeforeCall(RateLimitHits)]_vars


(***************************************************************************)
(* The cache under concurrent threads                                      *)
(***************************************************************************)
\* The latest put for the key has not expired yet.
Fresh(key) ==
    /\ Len(lastPut[key]) > 0
    /\ now <= _compute_expiry(Latest(key).rec, Latest(key).at)

\* C21: whatever the interleaving of the gets and puts of the threads, an
\* unexpired entry written by a put is not lost: it is in the table (a get
\* that had read an older, expired entry did not delete it), and a get made
\* after the put returns its record.
C21_UnexpiredEntryKept ==
    \A key \in DOMAIN lastPut :
        Fresh(key) =>
            /\ \E r \in research_cache :
                  /\ r.cache_key = key
                  /\ _json_loads(r.result_json) = Latest(key).rec
            /\ \A th \in Threads :
                  (/\ thread[th].id # "" /\ _cache_key(thread[th].id) = key
                   /\ thread[th].seen = Len(lastPut[key]))
                    => thread[th].pc = "idle" /\ thread[th].ret = <<Latest(key).rec>>


(***************************************************************************)
(* extract_json                                                            *)
(***************************************************************************)
\* Some text[i..j] is a JSON object.
Recoverable(text) ==
    \E i, j \in 1..Len(text) :
        /\ i < j /\ Ch(text, i) = "{" /\ Ch(text, j) = "}"
        /\ json_loads(SubSeq(text, i, j)).ok

\* The forms of response the layers are there for: the payload in a json
\* code fence, after prose, and before trailing text with further braces.
LayeredForms ==
    {"json_fence", "prose", "trailing_braces", "trailing_object", "trailing_close"}

\* C22: extract_json returns the object of the payload whether the payload is
\* in a json code fence, preceded by prose or followed by trailing text with
\* further braces, and it raises the parse error, returning no value, when the
\* text holds no recoverable JSON object.
C22_LayeredFallback ==
    extracted # <<>> =>
        /\ response.form \in LayeredForms =>
              extracted[1] = Extracted(json_loads(response.payload).val)
        /\ ~Recoverable(response.text) => extracted[1].raised


(***************************************************************************)
(* Phases 2 and 3 of the pipeline                                          *)
(***************************************************************************)
\* The run at position p has returned and its deep-research call had come
\* back with a record.
Deepened_Run(p) == task[p].pc = "done" /\ Len(task[p].deep) > 0

DeepOf(p) == task[p].deep[1]

\* The two cases in which phase 2 is said to be final.
FinalAfterDeep(rec) ==
    \/ Get(rec, "status", "uncertain") = "not_found"
    \/ /\ classify_lead_tier(rec)[1] # "not_billable"
       /\ _missing_billable_fields(rec) = <<>>

\* rec has every field of the phase-2 record, with its value.
Carries(rec, deep) == \A k \in DOMAIN deep : k \in DOMAIN rec /\ rec[k] = deep[k]

\* C23: a run whose deep-research call came back with a record returns
\* without a follow-up call exactly when that record has status not_found, or
\* has a billable tier and no missing field; and then the phase-2 record is
\* what the run returns and what it writes to the cache.
C23_FinalAfterDeepResearch ==
    \A p \in DOMAIN task :
        Deepened_Run(p) =>
            /\ (task[p].calls = 2) <=> FinalAfterDeep(DeepOf(p))
            /\ FinalAfterDeep(DeepOf(p)) =>
                  /\ Carries(task[p].ret[1], DeepOf(p))
                  /\ \E r \in task[p].putRow :
                        Carries(_json_loads(r.result_json), DeepOf(p))


\* missing[:3] of the phase-2 record
Chased(rec) ==
    SubSeq(_missing_billable_fields(rec), 1,
           Min(3, Len(_missing_billable_fields(rec))))

\* C24: a run makes at most 3 follow-up calls, each for another field, and
\* they go through the first entries of the missing list of the phase-2
\* record in its order; a run makes at most 5 calls, and the _api_calls of
\* the record it returns is the number of calls it made.
C24_AtMostThreeFollowups ==
    \A p \in DOMAIN task :
        /\ Len(task[p].asked) <= 3
        /\ Cardinality(Range(task[p].asked)) = Len(task[p].asked)
        /\ task[p].calls <= 5
        /\ Len(task[p].asked) > 0 =>
              /\ Len(task[p].asked) <= Len(Chased(DeepOf(p)))
              /\ task[p].asked = SubSeq(Chased(DeepOf(p)), 1, Len(task[p].asked))
        /\ (task[p].pc = "done" /\ Len(task[p].asked) > 0) =>
              task[p].asked = Chased(DeepOf(p))
        /\ (task[p].pc = "done" /\ "_api_calls" \in DOMAIN task[p].ret[1]) =>
              task[p].ret[1]["_api_calls"] = task[p].calls

\* A run that chased three of four missing fields has returned.
C24_Witness ==
    \E p \in DOMAIN task :
        /\ task[p].pc = "done" /\ Len(task[p].asked) = 3 /\ task[p].calls = 5
        /\ Len(_missing_billable_fields(DeepOf(p))) = 4
        /\ task[p].ret[1]["_api_calls"] = 5


\* The record of the run at position p after its i-th follow-up.
After(p, i) ==
    IF i < Len(task[p].trail) THEN task[p].trail[i + 1].before
    ELSE IF task[p].pc = "done" THEN task[p].ret[1]
    ELSE task[p].result[1]

\* rec is a record made by _error_result.
ErrorRecord(rec) ==
    StartsWith(Get(rec, "event_summary", ""), "Error during research: ")

\* C25: a follow-up call that fails leaves the field it asked for as it was,
\* the follow-ups after it are made all the same, and the run returns a
\* record with the status of the phase-2 record, not an error record; a
\* follow-up that answers with an empty value leaves the whole record as it
\* was, contact_source_url included.
C25_FollowupFailureNotFatal ==
    \A p \in DOMAIN task :
        /\ \A i \in 1..Len(task[p].trail) :
              /\ task[p].trail[i].failed =>
                    Get(After(p, i), task[p].asked[i], "") =
                        Get(task[p].trail[i].before, task[p].asked[i], "")
              /\ task[p].trail[i].empty =>
                    Carries(After(p, i), task[p].trail[i].before)
        /\ (/\ task[p].pc = "done"
            /\ \E i \in 1..Len(task[p].trail) : task[p].trail[i].failed) =>
              /\ task[p].asked = Chased(DeepOf(p))
              /\ ~ErrorRecord(task[p].ret[1])
              /\ Get(task[p].ret[1], "status", "uncertain") =
                    Get(DeepOf(p), "status", "uncertain")


(***************************************************************************)
(* The missing fields of a record                                          *)
(***************************************************************************)
\* The fields that are looked for, the billing-relevant ones first.
Priority ==
    <<"event_url", "contact_email", "event_date", "auction_type",
      "contact_role", "organization_address", "organization_phone_maps">>

\* s, without the whitespace around it, is local@domain with one "@", no
\* whitespace, and a dot inside the domain.
EmailShape(s) ==
    LET e == strip(s)
    IN  /\ \A i \in 1..Len(e) : Ch(e, i) \notin Whitespace
        /\ Cardinality({i \in 1..Len(e) : Ch(e, i) = "@"}) = 1
        /\ \E a \in 2..Len(e) :
              /\ Ch(e, a) = "@"
              /\ \E d \in (a + 2)..(Len(e) - 1) : Ch(e, d) = "."

\* The field is absent from the record or not valid in it.
Lacks(record, field) ==
    CASE field = "event_url" -> ~HttpUrl(record)
      [] field = "contact_email" ->
            ~("contact_email" \in DOMAIN record /\ EmailShape(record["contact_email"]))
      [] OTHER -> ~NonEmpty(record, field)

\* C26: the missing list of a record is the priority list cut down to the
\* fields the record lacks: the same order, nothing twice, nothing else; an
\* event_url that is not an http or https URL and a contact_email that is
\* not a well-formed address count as lacking.
C26_MissingInPriorityOrder ==
    verdict # <<>> =>
        verdict[1] = SelectSeq(Priority, LAMBDA field : Lacks(lead, field))

\* A record with an ftp url, a malformed address and no role: three fields
\* are missing, two of them although they are filled in.
C26_Witness ==
    /\ verdict # <<>>
    /\ Get(lead, "event_url", "") = "ftp://x.org"
    /\ Get(lead, "contact_email", "") = "ann@x"
    /\ verdict[1] = <<"event_url", "contact_email", "contact_role">>


(***************************************************************************)
(* A put and the get right after it                                        *)
(***************************************************************************)
\* C27: a put of any record completes, and a get for the key at the instant
\* of the latest put for it returns the record that was put, whatever its
\* status and its event_date.
C27_PutThenGet ==
    /\ lastOp.op = "put" => ~lastOp.raised
    /\ (/\ lastOp.op = "get" /\ Len(lastPut[OpKey]) > 0
        /\ Latest(OpKey).at = lastOp.at)
         => lastOp.hit /\ lastOp.ret = <<Latest(OpKey).rec>>


(***************************************************************************)
(* What a job delivers and what it charged                                 *)
(***************************************************************************)
\* The record at position i is in the result files of the job.
Saved(i, complete_only) ==
    all_results[i] \in Range(save_results(all_results, caller.is_admin, complete_only))

LeadFeeCharged(i) == [idx |-> i, op |-> "lead_fee"] \in effects

\* C28: when the job of a user who is not an admin is done, every record in
\* its result files had its lead fee charged during the job, and no record
\* whose charge was refused for want of balance is among them.
C28_SavedWasCharged ==
    (runPc = "done" /\ Billed(caller)) =>
        \A complete_only \in BOOLEAN : \A i \in DOMAIN all_results :
            Saved(i, complete_only) =>
                /\ LeadFeeCharged(i)
                /\ ~Get(all_results[i], "_balance_exhausted", FALSE)

\* C29: a job started through _job_worker reaches exactly one terminal
\* outcome: a complete event followed by one sentinel with status complete, or
\* an error event followed by one sentinel with status error; a complete job
\* never becomes an error, and nothing is put after the sentinel.
Sentinels(q) == {i \in DOMAIN q : q[i] = None}
ClosedBy(q, event) ==
    Len(q) >= 2 /\ q[Len(q) - 1] = event /\ q[Len(q)] = None
Outcome_Complete ==
    /\ jobs = <<"complete">> /\ ClosedBy(progress_q, "complete")
    /\ "error" \notin Range(progress_q)
Outcome_Error ==
    /\ jobs = <<"error">> /\ ClosedBy(progress_q, "error")
    /\ "complete" \notin Range(progress_q)
C29_OneTerminalOutcome ==
    /\ Cardinality(Sentinels(progress_q)) <= 1
    /\ \A i \in Sentinels(progress_q) : i = Len(progress_q)
    /\ "complete" \in Range(progress_q) => jobs # <<"error">>
    /\ workerPc \in {"finally", "died"} => Outcome_Complete \/ Outcome_Error

\* C30: with several jobs of one user running in threads, the charges of
\* _research_one never take the wallet below 0: when a charge is deducted,
\* the balance at that moment covers it.
Owed(th) ==
    CASE thread[th].pc = "research_fee" ->
           get_research_fee_cents(Len(nonprofits)) + thread[th].price
      [] thread[th].pc = "lead_fee" -> thread[th].price
      [] OTHER -> 0
C30_WalletNeverNegative ==
    /\ balance_cents >= 0
    /\ \A th \in Threads : balance_cents >= Owed(th)

====
